---- MODULE Spec2Model ----
(***************************************************************************)
(* A model of conmon-v3's supervision session: the sync-pipe protocol      *)
(* (src/src/parent_pipe.rs), the session orchestrator                      *)
(* (src/src/runtime/session.rs, src/src/runtime/process.rs), the command   *)
(* entry points (src/src/commands/*.rs) and main (src/src/main.rs).        *)
(*                                                                         *)
(* Text is modelled as sequences of one-character strings, so that JSON    *)
(* serialisation, escaping and integer formatting are computed and a       *)
(* reader's decoding of the pipe contents is a real round trip.            *)
(***************************************************************************)
EXTENDS Integers, Sequences, FiniteSets, TLC

VARIABLES
    sp,         \* the component under study on its own (SpecSync, SpecStdio, ...)
    cfg,        \* command line after determine_cmd: cmd, api_version, attach, ...
    env,        \* the three pipe environment variables
    pc,         \* position of the supervisor in its control flow
    sess,       \* RuntimeSession fields and launch()'s locals
    pipes,      \* bytes written so far to the sync and attach pipes
    trace,      \* history of the externally visible steps taken
    outcome     \* how the supervisor process(es) ended

sessVars == <<cfg, env, pc, sess, pipes, trace, outcome>>
vars == <<sp, cfg, env, pc, sess, pipes, trace, outcome>>

----------------------------------------------------------------------------
(* Bounds of the model. *)

\* longest message string handed to write_or_close_sync_fd in SpecSync
MaxMsgLen == 1
\* longest scripted sequence of write(2) results in SpecSync
MaxWrites == 2

SeqsUpTo(S, n) == UNION {[1..k -> S] : k \in 0..n}

----------------------------------------------------------------------------
(* Text helpers. *)

DigitChars == <<"0", "1", "2", "3", "4", "5", "6", "7", "8", "9">>

RECURSIVE NatToStr(_)
NatToStr(n) ==
    IF n < 10 THEN <<DigitChars[n + 1]>>
    ELSE NatToStr(n \div 10) \o <<DigitChars[(n % 10) + 1]>>

\* Display of an i32, as serde_json (itoa) and i32::to_string print it.
IntToStr(n) == IF n < 0 THEN <<"-">> \o NatToStr(0 - n) ELSE NatToStr(n)

KeyChars(k) ==
    CASE k = "data" -> <<"d", "a", "t", "a">>
      [] k = "exit_code" -> <<"e", "x", "i", "t", "_", "c", "o", "d", "e">>
      [] k = "pid" -> <<"p", "i", "d">>
      [] k = "message" -> <<"m", "e", "s", "s", "a", "g", "e">>

\* Byte order of the four keys, the order of a BTreeMap<String, Value>.
KeyRank(k) ==
    CASE k = "data" -> 1
      [] k = "exit_code" -> 2
      [] k = "message" -> 3
      [] k = "pid" -> 4

----------------------------------------------------------------------------
(* serde_json: Value, Map and compact serialisation. *)

IntVal(n) == [t |-> "int", i |-> n, s |-> <<>>]
StrVal(str) == [t |-> "str", i |-> 0, s |-> str]

\* Option<&str>
None == [some |-> FALSE, val |-> <<>>]
Some(str) == [some |-> TRUE, val |-> str]

\* Map::insert: an existing key keeps its place and gets the new value; a new
\* key goes to its sorted place (BTreeMap, the default) or to the end
\* (IndexMap, serde_json's preserve_order feature).
MapInsert(m, k, v, preserve_order) ==
    IF \E j \in 1..Len(m) : m[j].k = k
    THEN [j \in 1..Len(m) |-> IF m[j].k = k THEN [k |-> k, v |-> v] ELSE m[j]]
    ELSE IF preserve_order
    THEN Append(m, [k |-> k, v |-> v])
    ELSE LET n == Cardinality({j \in 1..Len(m) : KeyRank(m[j].k) < KeyRank(k)})
         IN  SubSeq(m, 1, n) \o <<[k |-> k, v |-> v]>> \o SubSeq(m, n + 1, Len(m))

\* serde_json's string escaping, for the characters the model uses.
EscapeChar(c) ==
    CASE c = "\"" -> <<"\\", "\"">>
      [] c = "\\" -> <<"\\", "\\">>
      [] c = "\n" -> <<"\\", "n">>
      [] OTHER -> <<c>>

RECURSIVE EscapeStr(_)
EscapeStr(str) ==
    IF str = <<>> THEN <<>> ELSE EscapeChar(Head(str)) \o EscapeStr(Tail(str))

JsonString(str) == <<"\"">> \o EscapeStr(str) \o <<"\"">>

JsonValue(v) == IF v.t = "int" THEN IntToStr(v.i) ELSE JsonString(v.s)

RECURSIVE JsonMembers(_)
JsonMembers(m) ==
    IF m = <<>> THEN <<>>
    ELSE JsonString(KeyChars(m[1].k)) \o <<":">> \o JsonValue(m[1].v)
         \o (IF Len(m) > 1 THEN <<",">> ELSE <<>>) \o JsonMembers(Tail(m))

\* Value::Object(obj).to_string()
ToJsonString(m) == <<"{">> \o JsonMembers(m) \o <<"}">>

----------------------------------------------------------------------------
(* parent_pipe.rs: write_all_fd and write_or_close_sync_fd. *)

\* One result of write(2): n bytes taken, 0 bytes taken, or an errno.
Wrote(n) == [r |-> "n", n |-> n]
WriteErr(e) == [r |-> e, n |-> 0]
WriteOutcomes == {Wrote(1), WriteErr("zero"), WriteErr("EINTR"), WriteErr("EPIPE"), WriteErr("EBADF")}

Min(a, b) == IF a < b THEN a ELSE b

\* write_all_fd: loop until the buffer is empty; `script` holds the results of
\* the successive write(2) calls, after which every write takes all it is given.
RECURSIVE write_all_fd(_, _, _)
write_all_fd(buf, script, written) ==
    IF buf = <<>> THEN [res |-> "Ok", written |-> written]
    ELSE IF script = <<>> THEN [res |-> "Ok", written |-> written \o buf]
    ELSE LET o == Head(script) IN
         CASE o.r = "n" ->
                LET k == Min(o.n, Len(buf))
                IN  write_all_fd(SubSeq(buf, k + 1, Len(buf)), Tail(script),
                                 written \o SubSeq(buf, 1, k))
           [] o.r = "zero" -> [res |-> "EIO", written |-> written]
           [] o.r = "EINTR" -> write_all_fd(buf, Tail(script), written)
           [] OTHER -> [res |-> o.r, written |-> written]

DataKeyApiGt1(opt_api_version, opt_exec) ==
    IF opt_api_version > 1 THEN "data"
    ELSE IF opt_exec THEN "exit_code" ELSE "pid"

\* The key of the integer.
DataKey(opt_api_version, opt_exec) ==
    IF opt_api_version >= 1 THEN "data"
    ELSE IF opt_exec THEN "exit_code" ELSE "pid"

\* The JSON object built for a call.
SyncObject(int_data, str_data, opt_api_version, opt_exec, preserve_order) ==
    LET obj0 == MapInsert(<<>>, DataKey(opt_api_version, opt_exec),
                          IntVal(int_data), preserve_order)
    IN  IF str_data.some /\ str_data.val # <<>>
        THEN MapInsert(obj0, "message", StrVal(str_data.val), preserve_order)
        ELSE obj0

SendErrMsg == "Unable to send container stderr message to parent"

SyncWriteResultEpipeFatal(w) ==
    IF w.res = "Ok"
    THEN [res |-> "Ok", fd |-> TRUE, msg |-> "", written |-> w.written]
    ELSE [res |-> "Err", fd |-> FALSE, msg |-> SendErrMsg, written |-> w.written]

\* What the call returns for the result w of write_all_fd: Ok(Some(fd)),
\* Ok(None) with the fd dropped, or the fatal error (fd dropped as well).
SyncWriteResult(w) ==
    CASE w.res = "Ok" -> [res |-> "Ok", fd |-> TRUE, msg |-> "", written |-> w.written]
      [] w.res = "EPIPE" -> [res |-> "Ok", fd |-> FALSE, msg |-> "", written |-> w.written]
      [] OTHER -> [res |-> "Err", fd |-> FALSE, msg |-> SendErrMsg, written |-> w.written]

write_or_close_sync_fd(int_data, str_data, opt_api_version, opt_exec, preserve_order, script) ==
    LET json == ToJsonString(SyncObject(int_data, str_data, opt_api_version,
                                        opt_exec, preserve_order)) \o <<"\n">>
    IN  SyncWriteResult(write_all_fd(json, script, <<>>))

----------------------------------------------------------------------------
(* SpecSync: one call of write_or_close_sync_fd on every input. *)

ApiVersions == {-1, 0, 1, 2}
IntData == {-1, 0, 42}
MsgChars == {"k", "\"", "\n"}
MsgInputs == {None} \cup {Some(str) : str \in SeqsUpTo(MsgChars, MaxMsgLen)}
WriteScripts == SeqsUpTo(WriteOutcomes, MaxWrites)

SpIdle == [phase |-> "idle"]

SessIdle ==
    /\ cfg = [cmd |-> "none"]
    /\ env = [sync |-> "none"]
    /\ pc = "idle"
    /\ sess = [pid |-> -1]
    /\ pipes = [sync |-> <<>>]
    /\ trace = <<>>
    /\ outcome = [exit |-> "none"]

InitSync ==
    /\ \E api \in ApiVersions, ex \in BOOLEAN, n \in IntData, m \in MsgInputs,
          po \in BOOLEAN, sc \in WriteScripts :
          sp = [phase |-> "call", api |-> api, exec |-> ex, int |-> n, msg |-> m,
                preserve_order |-> po, script |-> sc,
                ret |-> [res |-> "none", fd |-> TRUE, msg |-> "", written |-> <<>>]]
    /\ SessIdle

CallWriteOrCloseSyncFd ==
    /\ sp.phase = "call"
    /\ sp' = [sp EXCEPT !.phase = "returned",
                        !.ret = write_or_close_sync_fd(sp.int, sp.msg, sp.api, sp.exec,
                                                       sp.preserve_order, sp.script)]
    /\ UNCHANGED sessVars

NextSync == CallWriteOrCloseSyncFd

SpecSync == InitSync /\ [][NextSync]_vars

----------------------------------------------------------------------------
(* The reader's side of the pipe: decoding one line of JSON text, used to    *)
(* state what was written.                                                   *)

DigitVal(c) == CHOOSE d \in 0..9 : DigitChars[d + 1] = c
IsDigit(c) == \E d \in 0..9 : DigitChars[d + 1] = c

\* text[i..] up to the closing quote, unescaped; i is just after the opening quote.
RECURSIVE ReadStr(_, _, _)
ReadStr(text, i, acc) ==
    IF i > Len(text) \/ text[i] = "\n" THEN [ok |-> FALSE, s |-> acc, next |-> i]
    ELSE IF text[i] = "\"" THEN [ok |-> TRUE, s |-> acc, next |-> i + 1]
    ELSE IF text[i] = "\\"
    THEN IF i + 1 > Len(text) THEN [ok |-> FALSE, s |-> acc, next |-> i]
         ELSE CASE text[i + 1] = "n" -> ReadStr(text, i + 2, Append(acc, "\n"))
                [] text[i + 1] = "\"" -> ReadStr(text, i + 2, Append(acc, "\""))
                [] text[i + 1] = "\\" -> ReadStr(text, i + 2, Append(acc, "\\"))
                [] OTHER -> [ok |-> FALSE, s |-> acc, next |-> i]
    ELSE ReadStr(text, i + 1, Append(acc, text[i]))

RECURSIVE ReadDigits(_, _, _, _)
ReadDigits(text, i, n, count) ==
    IF i <= Len(text) /\ IsDigit(text[i])
    THEN ReadDigits(text, i + 1, 10 * n + DigitVal(text[i]), count + 1)
    ELSE [ok |-> count > 0, n |-> n, next |-> i]

ReadInt(text, i) ==
    IF i <= Len(text) /\ text[i] = "-"
    THEN LET r == ReadDigits(text, i + 1, 0, 0) IN [r EXCEPT !.n = 0 - r.n]
    ELSE ReadDigits(text, i, 0, 0)

BadLine == [ok |-> FALSE, members |-> <<>>]

\* The members of the object from text[i], which must open a key; the object
\* must end the text but for the final newline.
RECURSIVE ReadMembers(_, _, _)
ReadMembers(text, i, acc) ==
    IF i > Len(text) \/ text[i] # "\"" THEN BadLine
    ELSE LET key == ReadStr(text, i + 1, <<>>) IN
    IF ~key.ok \/ key.next > Len(text) \/ text[key.next] # ":" THEN BadLine
    ELSE LET j == key.next + 1
             isStr == j <= Len(text) /\ text[j] = "\""
             sv == ReadStr(text, j + 1, <<>>)
             iv == ReadInt(text, j)
             ok == IF isStr THEN sv.ok ELSE iv.ok
             val == IF isStr THEN StrVal(sv.s) ELSE IntVal(iv.n)
             n == IF isStr THEN sv.next ELSE iv.next
             acc2 == Append(acc, [k |-> key.s, v |-> val])
         IN
    IF ~ok \/ n > Len(text) THEN BadLine
    ELSE IF text[n] = "," THEN ReadMembers(text, n + 1, acc2)
    ELSE IF text[n] = "}" /\ n + 1 = Len(text) /\ text[n + 1] = "\n"
    THEN [ok |-> TRUE, members |-> acc2]
    ELSE BadLine

\* One line holding one JSON object with at least one member.
DecodeLine(text) ==
    IF Len(text) < 2 \/ text[1] # "{" THEN BadLine ELSE ReadMembers(text, 2, <<>>)

Range(f) == {f[x] : x \in DOMAIN f}

NewlineCount(text) == Cardinality({i \in 1..Len(text) : text[i] = "\n"})

----------------------------------------------------------------------------
(* Errors (error/mod.rs): a message, kept as the fragments format! joins,    *)
(* and a numeric code.                                                       *)

Lit(str) == [lit |-> str, val |-> <<>>]
Val(chars) == [lit |-> "", val |-> chars]

ConmonError(msg, code) == [msg |-> msg, code |-> code]

Contains(msg, str) == \E i \in 1..Len(msg) : msg[i] = Lit(str)

----------------------------------------------------------------------------
(* parent_pipe.rs: get_pipe_fd_from_env_with. *)

\* Values of an environment variable, as std::env::var reports them.
NotPresent == [kind |-> "NotPresent", s |-> <<>>]
NotUnicode == [kind |-> "NotUnicode", s |-> <<>>]
EnvStr(chars) == [kind |-> "Str", s |-> chars]

I32Max == 2147483647

\* The digits from str[i] on, accumulated with checked arithmetic: m is the
\* magnitude read so far, which may reach I32Max + 1 only below zero.
RECURSIVE ParseI32Digits(_, _, _, _)
ParseI32Digits(str, i, m, neg) ==
    IF i > Len(str) THEN [ok |-> TRUE, n |-> IF neg THEN 0 - m ELSE m]
    ELSE IF ~IsDigit(str[i]) THEN [ok |-> FALSE, n |-> 0]
    ELSE LET d == DigitVal(str[i])
             most == IF ~neg THEN (I32Max - d) \div 10
                     ELSE IF d = 0 THEN I32Max \div 10
                     ELSE (I32Max - (d - 1)) \div 10
         IN  IF m > most THEN [ok |-> FALSE, n |-> 0]
             ELSE IF neg /\ i = Len(str) /\ m = most /\ 10 * most + d - 1 = I32Max
             THEN [ok |-> TRUE, n |-> (0 - I32Max) - 1]
             ELSE ParseI32Digits(str, i + 1, 10 * m + d, neg)

\* str::parse::<i32>: an optional sign, then one or more digits and nothing
\* else, the value within the range of an i32.
ParseI32(str) ==
    LET start == IF Len(str) >= 1 /\ str[1] \in {"+", "-"} THEN 2 ELSE 1
        neg == Len(str) >= 1 /\ str[1] = "-"
    IN  IF start > Len(str) THEN [ok |-> FALSE, n |-> 0]
        ELSE ParseI32Digits(str, start, 0, neg)

NotAnIntegerErr(envname, pipe_str) ==
    ConmonError(<<Lit("unable to parse "), Lit(envname), Lit(" : "), Val(pipe_str),
                  Lit(" "), Lit("not an integer")>>, 1)

EnvFdNone == [res |-> "Ok", some |-> FALSE, fd |-> -1, cloexec |-> FALSE,
              err |-> ConmonError(<<>>, 0)]

get_pipe_fd_from_env_NoParseCheck(envname, value, fcntl_ok) ==
    IF value.kind = "NotPresent" THEN EnvFdNone
    ELSE IF value.kind = "NotUnicode"
    THEN [EnvFdNone EXCEPT !.res = "Err",
             !.err = ConmonError(<<Lit("unable to parse "), Lit(envname)>>, 1)]
    ELSE [EnvFdNone EXCEPT !.some = TRUE, !.fd = ParseI32(value.s).n, !.cloexec = TRUE]

\* Ok(None) when the variable is absent, an error when it cannot be read or
\* parsed or when fcntl(F_SETFD, FD_CLOEXEC) fails on the number, else the fd.
get_pipe_fd_from_env(envname, value, fcntl_ok) ==
    IF value.kind = "NotPresent" THEN EnvFdNone
    ELSE IF value.kind = "NotUnicode"
    THEN [EnvFdNone EXCEPT !.res = "Err",
             !.err = ConmonError(<<Lit("unable to parse "), Lit(envname)>>, 1)]
    ELSE LET p == ParseI32(value.s) IN
         IF ~p.ok
         THEN [EnvFdNone EXCEPT !.res = "Err", !.err = NotAnIntegerErr(envname, value.s)]
         ELSE IF ~fcntl_ok \/ p.n < 0
         THEN [EnvFdNone EXCEPT !.res = "Err",
                  !.err = ConmonError(<<Lit("unable to make "), Lit(envname),
                                        Lit(" CLOEXEC")>>, 1)]
         ELSE [EnvFdNone EXCEPT !.some = TRUE, !.fd = p.n, !.cloexec = TRUE]

----------------------------------------------------------------------------
(* The session: state, inputs and helpers. *)

Cmds == {"create", "exec", "restore"}
SessionApiVersions == {0, 1}
EnvValues == {NotPresent, NotUnicode, EnvStr(<<"x">>), EnvStr(<<"7">>)}

\* Exit codes the runtime may end with (WaitStatus::Exited).
ExitCodes == {0, 1, 7, 255}

\* Results of the write(2) calls of one sync-pipe or attach-pipe message.
SessionScripts ==
    {<<>>, <<WriteErr("EPIPE")>>, <<Wrote(1), WriteErr("EPIPE")>>, <<WriteErr("EBADF")>>,
     <<WriteErr("zero")>>}

\* What the runtime left in the container pidfile (no file: io error).
PidFiles == {[exists |-> FALSE, contents |-> <<>>],
             [exists |-> TRUE, contents |-> <<"4", "2", "\n">>],
             [exists |-> TRUE, contents |-> <<"x">>]}

\* What the runtime writes to its stderr before it exits: nothing, a text, or
\* bytes that are not UTF-8.
StderrTexts == {[utf8 |-> TRUE, bytes |-> <<>>],
                [utf8 |-> TRUE, bytes |-> <<"o", "k">>],
                [utf8 |-> FALSE, bytes |-> <<"x">>]}

\* One read of the container's stderr pipe by write_exit_code: the bytes the
\* multiplexer has not taken (at most the 8 KiB of the buffer; 0 at end-of-file),
\* or an error.
StderrReads(stderr) ==
    {[res |-> "Ok", utf8 |-> stderr.utf8 \/ stderr.left = <<>>, bytes |-> stderr.left],
     [res |-> "Err", utf8 |-> TRUE, bytes |-> <<>>]}

\* child.id() of the runtime process.
RuntimePid == 100

NoError == ConmonError(<<>>, 0)
Running == [st |-> "running", err |-> NoError, code |-> 0]
Ok(code) == [st |-> "ok", err |-> NoError, code |-> code]
Err(e) == [st |-> "err", err |-> e, code |-> 0]

\* A step of the history: what was done, and for a pipe message the write(2)
\* results it met and what write_or_close_sync_fd returned.
E(name) == [ev |-> name, script |-> <<>>, res |-> "", fd |-> FALSE]
W(name, script, ret) == [ev |-> name, script |-> script, res |-> ret.res, fd |-> ret.fd]

\* A session whose process starts with pid 0 in place of -1.
NewSessionPidZero ==
    [sync_pipe_fd |-> FALSE, attach_pipe_fd |-> FALSE, start_pipe_fd |-> FALSE,
     attach_socket |-> FALSE, stdio |-> FALSE, pid |-> 0, exit_code |-> -1,
     runtime_pid |-> -1, runtime_status |-> -1, result |-> Running]

\* RuntimeSession::new and RuntimeProcess::new, with launch()'s locals and
\* Create::exec's locals runtime_pid and runtime_status.
NewSession ==
    [sync_pipe_fd |-> FALSE, attach_pipe_fd |-> FALSE, start_pipe_fd |-> FALSE,
     attach_socket |-> FALSE, stdio |-> FALSE, pid |-> -1, exit_code |-> -1,
     runtime_pid |-> -1, runtime_status |-> -1, result |-> Running]

\* determine_cmd: attach only with exec, and only with API version >= 1.
ValidCfg(c) ==
    /\ (c.attach => c.cmd = "exec")
    /\ (c.attach => c.api_version >= 1)

Init ==
    /\ sp = SpIdle
    /\ cfg \in {c \in [cmd : Cmds, api_version : SessionApiVersions, attach : BOOLEAN,
                       conmon_pidfile : BOOLEAN, preserve_order : BOOLEAN] : ValidCfg(c)}
    /\ env \in [sync : EnvValues, attach : EnvValues, start : EnvValues]
    /\ pc = "main"
    /\ sess = NewSession
    /\ pipes = [sync |-> <<>>, attach |-> <<>>,
                stderr |-> [utf8 |-> TRUE, bytes |-> <<>>, left |-> <<>>, open |-> TRUE],
                attach_file |-> FALSE]
    /\ trace = <<>>
    /\ outcome = [orig |-> -1, child |-> -2]

Forked == outcome.child # -2

Step(npc, nsess, npipes, evs) ==
    /\ pc' = npc
    /\ sess' = nsess
    /\ pipes' = npipes
    /\ trace' = trace \o evs
    /\ UNCHANGED <<sp, cfg, env, outcome>>

\* An error returned with `?` up to main.
Fail(e, nsess, npipes, evs) ==
    Step("main_ret", [nsess EXCEPT !.result = Err(e)], npipes, evs)

IoErr(what) == ConmonError(<<Lit(what)>>, 1)

DropUnlinksNever(path) == FALSE

\* unix_socket.rs, Drop of a UnixSocket:
\* if let Some(path) = self.path.take() { let _ = unlink(&path); }
DropUnlinks(path) == path.some

----------------------------------------------------------------------------
(* main.rs: run_conmon dispatches on the command determine_cmd selected. *)

Main ==
    /\ pc = "main"
    /\ Step(CASE cfg.cmd = "exec" -> "launch_sync"
              [] cfg.cmd = "create" -> "create_pipes"
              [] cfg.cmd = "restore" -> "restore",
            sess, pipes, <<>>)

----------------------------------------------------------------------------
(* session.rs: RuntimeSession::launch, in the order of its statements. *)

\* The start pipe read ahead of the attach socket and its readiness message.
LaunchAfterStartPipeFirst(step) ==
    CASE step = "sync" -> "launch_attach_pipe"
      [] step = "attach_pipe" -> "launch_start"
      [] step = "start" -> "launch_listen"
      [] step = "listen" -> "launch_ready"
      [] step = "ready" -> "launch_pipes"
      [] step = "pipes" -> "spawn_fork"

\* The statement of launch that follows each of its steps.
LaunchAfter(step) ==
    CASE step = "sync" -> "launch_attach_pipe"
      [] step = "attach_pipe" -> "launch_listen"
      [] step = "listen" -> "launch_ready"
      [] step = "ready" -> "launch_start"
      [] step = "start" -> "launch_pipes"
      [] step = "pipes" -> "spawn_fork"

\* self.sync_pipe_fd = get_pipe_fd_from_env("_OCI_SYNCPIPE")?
LaunchSyncPipe ==
    /\ pc = "launch_sync"
    /\ \E fcntl_ok \in BOOLEAN :
        LET g == get_pipe_fd_from_env("_OCI_SYNCPIPE", env.sync, fcntl_ok) IN
        IF g.res = "Err" THEN Fail(g.err, sess, pipes, <<E("env_sync")>>)
        ELSE Step(LaunchAfter("sync"), [sess EXCEPT !.sync_pipe_fd = g.some],
                  pipes, <<E("env_sync")>>)

\* if attach { attach_pipe_fd = get_pipe_fd_from_env("_OCI_ATTACHPIPE")?; ... }
LaunchAttachPipe ==
    /\ pc = "launch_attach_pipe"
    /\ IF ~cfg.attach THEN Step(LaunchAfter("attach_pipe"), sess, pipes, <<>>)
       ELSE \E fcntl_ok \in BOOLEAN :
        LET g == get_pipe_fd_from_env("_OCI_ATTACHPIPE", env.attach, fcntl_ok) IN
        IF g.res = "Err" THEN Fail(g.err, sess, pipes, <<E("env_attach")>>)
        ELSE IF ~g.some
        THEN Fail(IoErr("--attach specified but _OCI_ATTACHPIPE was not set"),
                  sess, pipes, <<E("env_attach")>>)
        ELSE Step(LaunchAfter("attach_pipe"), [sess EXCEPT !.attach_pipe_fd = TRUE],
                  pipes, <<E("env_attach")>>)

\* attach_socket.listen(...)?; self.attach_socket = Some(attach_socket)
\* UnixSocket::listen as a whole: it succeeds and the socket file stands at
\* the path, or it fails before bind(2) made the file, or it fails at
\* listen(2), after bind(2) made the file, and records no path.
LaunchListen ==
    /\ pc = "launch_listen"
    /\ \E r \in {"ok", "failed", "failed_after_bind"} :
        IF r = "ok"
        THEN Step(LaunchAfter("listen"), [sess EXCEPT !.attach_socket = TRUE],
                  [pipes EXCEPT !.attach_file = TRUE], <<E("listen")>>)
        ELSE Fail(IoErr("attach socket listen failed"),
                  [sess EXCEPT !.attach_pipe_fd = FALSE],
                  [pipes EXCEPT !.attach_file = (r = "failed_after_bind")], <<>>)

\* if let Some(fd) = attach_pipe_fd.take() { write_or_close_sync_fd(fd, 0, None, api, true)?; }
LaunchAttachReady ==
    /\ pc = "launch_ready"
    /\ IF ~sess.attach_pipe_fd THEN Step(LaunchAfter("ready"), sess, pipes, <<>>)
       ELSE \E script \in SessionScripts :
        LET r == write_or_close_sync_fd(0, None, cfg.api_version, TRUE,
                                        cfg.preserve_order, script)
            s2 == [sess EXCEPT !.attach_pipe_fd = FALSE]
            p2 == [pipes EXCEPT !.attach = @ \o r.written]
            ev == <<W("attach_ready", script, r)>>
        IN  IF r.res = "Err" THEN Fail(ConmonError(<<Lit(r.msg)>>, 1), s2, p2, ev)
            ELSE Step(LaunchAfter("ready"), s2, p2, ev)

\* get_pipe_fd_from_env("_OCI_STARTPIPE")?, one read_pipe on it, and the fd
\* kept for spawn only when attaching.
LaunchStartPipe ==
    /\ pc = "launch_start"
    /\ \E fcntl_ok \in BOOLEAN, read_ok \in BOOLEAN :
        LET g == get_pipe_fd_from_env("_OCI_STARTPIPE", env.start, fcntl_ok) IN
        IF g.res = "Err" THEN Fail(g.err, sess, pipes, <<E("env_start")>>)
        ELSE IF ~g.some THEN Step(LaunchAfter("start"), sess, pipes, <<E("env_start")>>)
        ELSE IF ~read_ok
        THEN Fail(IoErr("read() failed while reading pipe"), sess, pipes,
                  <<E("env_start")>>)
        ELSE Step(LaunchAfter("start"), [sess EXCEPT !.start_pipe_fd = cfg.attach],
                  pipes, <<E("env_start"), E("start_read")>>)

\* generate_runtime_args(common, args_gen)? (the Exec generator cannot fail) and
\* the create_pipe()? calls.
LaunchPipes ==
    /\ pc = "launch_pipes"
    /\ \E ok \in BOOLEAN :
        IF ok THEN Step(LaunchAfter("pipes"), [sess EXCEPT !.stdio = TRUE], pipes, <<>>)
        ELSE Fail(IoErr("Failed to create pipe"),
                  [sess EXCEPT !.start_pipe_fd = FALSE], pipes, <<>>)

----------------------------------------------------------------------------
(* process.rs: RuntimeProcess::spawn. *)

\* args is not empty (the runtime path is always pushed);
\* redirect_self_to_devnull()? and fork(): the parent exits with 0, the child
\* goes on.
SpawnFork ==
    /\ pc = "spawn_fork"
    /\ \E r \in {"ok", "devnull_failed", "fork_failed"} :
        IF r = "ok"
        THEN /\ pc' = "spawn_start_read"
             /\ trace' = trace \o <<E("devnull"), E("fork")>>
             /\ outcome' = [orig |-> 0, child |-> -1]
             /\ UNCHANGED <<sp, cfg, env, sess, pipes>>
        ELSE Fail(IoErr(IF r = "fork_failed" THEN "Failed to fork" ELSE "Errno error"),
                  [sess EXCEPT !.start_pipe_fd = FALSE], pipes,
                  IF r = "fork_failed" THEN <<E("devnull")>> ELSE <<>>)

\* if let Some(fd) = start_pipe_fd.take() { read_pipe(&fd, &mut buf)?; }
SpawnStartRead ==
    /\ pc = "spawn_start_read"
    /\ IF ~sess.start_pipe_fd THEN Step("spawn_exec", sess, pipes, <<>>)
       ELSE \E read_ok \in BOOLEAN :
        IF read_ok
        THEN Step("spawn_exec", [sess EXCEPT !.start_pipe_fd = FALSE], pipes,
                  <<E("start_read")>>)
        ELSE Fail(IoErr("read() failed while reading pipe"),
                  [sess EXCEPT !.start_pipe_fd = FALSE], pipes, <<>>)

\* spawn returning child.id() without recording it in self.pid.
SpawnExecPidUnrecorded ==
    /\ pc = "spawn_exec"
    /\ Step("launch_pidfile", sess, pipes, <<E("block_signals"), E("spawn")>>)

\* block_signals()?, Command::spawn with the pre_exec child setup, self.pid = child.id()
SpawnExec ==
    /\ pc = "spawn_exec"
    /\ \E r \in {"ok", "sigmask_failed", "spawn_failed"} :
        IF r = "ok"
        THEN Step("launch_pidfile", [sess EXCEPT !.pid = RuntimePid], pipes,
                  <<E("block_signals"), E("spawn")>>)
        ELSE Fail(IoErr(IF r = "spawn_failed" THEN "Failed to spawn"
                        ELSE "Failed to block signals"),
                  sess, pipes,
                  IF r = "spawn_failed" THEN <<E("block_signals")>> ELSE <<>>)

\* Back in launch: std::fs::write(pidfile, self.process.pid().to_string())?
LaunchConmonPidfile ==
    /\ pc = "launch_pidfile"
    /\ IF ~cfg.conmon_pidfile THEN Step("launch_done", sess, pipes, <<>>)
       ELSE \E ok \in BOOLEAN :
        IF ok THEN Step("launch_done", sess, pipes, <<E("conmon_pidfile")>>)
        ELSE Fail(IoErr("IO error"), sess, pipes, <<>>)

----------------------------------------------------------------------------
(* session.rs: the hand-offs on the sync pipe, and wait. *)

IsSpace(c) == c \in {" ", "\n", "\t"}

\* str::trim
RECURSIVE Trim(_)
Trim(str) ==
    IF str = <<>> THEN str
    ELSE IF IsSpace(Head(str)) THEN Trim(Tail(str))
    ELSE IF IsSpace(str[Len(str)]) THEN Trim(SubSeq(str, 1, Len(str) - 1))
    ELSE str

\* read_container_pid: the pidfile's trimmed contents parsed as an i32.
read_container_pid(pidfile) ==
    IF ~pidfile.exists THEN [ok |-> FALSE, pid |-> 0, err |-> IoErr("IO error")]
    ELSE LET p == ParseI32(Trim(pidfile.contents)) IN
         IF p.ok THEN [ok |-> TRUE, pid |-> p.n, err |-> NoError]
         ELSE [ok |-> FALSE, pid |-> 0,
               err |-> ConmonError(<<Lit("Invalid PID contents in "), Lit("pidfile"),
                                     Lit(": "), Val(Trim(pidfile.contents))>>, 1)]

TakeSyncFdAlways(s) == TRUE

\* if let Some(fd) = self.sync_pipe_fd.take()
TakeSyncFd(s) == s.sync_pipe_fd

ExecAfterExitBeforePid(step) ==
    CASE step = "launch" -> "exec_event_loop"
      [] step = "exec_event_loop" -> "exec_wait"
      [] step = "exec_wait" -> "exec_write_exit"
      [] step = "exec_write_exit" -> "exec_write_pid"
      [] step = "exec_write_pid" -> "exec_return"

\* Exec::exec: launch, run_event_loop, wait, write_container_pid_file,
\* write_exit_code, return.
ExecAfter(step) ==
    CASE step = "launch" -> "exec_event_loop"
      [] step = "exec_event_loop" -> "exec_wait"
      [] step = "exec_wait" -> "exec_write_pid"
      [] step = "exec_write_pid" -> "exec_write_exit"
      [] step = "exec_write_exit" -> "exec_return"

\* RuntimeSession::run_event_loop: handle_stdio on the stdio fds launch made,
\* running while the runtime runs. Of what the runtime writes to stderr,
\* handle_stdio has read and logged the first `taken` bytes when it returns
\* (it returns at the close of either stream, see SpecStdio); the rest stays
\* in the pipe.
ExecEventLoop ==
    /\ pc = "exec_event_loop"
    /\ IF ~sess.stdio
       THEN Fail(IoErr("RuntimeSession called without stdio"), sess, pipes, <<>>)
       ELSE \E ok \in BOOLEAN, t \in StderrTexts, open \in BOOLEAN :
            \E taken \in 0..Len(t.bytes) :
        LET p2 == [pipes EXCEPT !.stderr =
                        [utf8 |-> t.utf8, bytes |-> t.bytes,
                         left |-> SubSeq(t.bytes, taken + 1, Len(t.bytes)),
                         open |-> open]]
        IN  IF ok THEN Step(ExecAfter("exec_event_loop"), sess, p2, <<E("mux")>>)
            ELSE Fail(IoErr("handle_stdio failed"), sess, pipes, <<E("mux")>>)

\* Results of RuntimeProcess::wait / wait_for_runtime.
WaitOutcomes ==
    {[st |-> "Exited", code |-> c] : c \in ExitCodes}
    \cup {[st |-> "Signaled", code |-> 0], [st |-> "Error", code |-> 0]}

WaitErr(w) ==
    IF w.st = "Signaled" THEN IoErr("Runtime process exited due to signal")
    ELSE IoErr("Failed to wait for runtime process to exit")

WaitEvents(w) ==
    CASE w.st = "Exited" -> <<E("wait")>>
      [] w.st = "Signaled" -> <<E("wait_signaled")>>
      [] OTHER -> <<E("wait_error"), E("kill")>>

\* RuntimeSession::wait: self.exit_code = self.process.wait()?
ExecWait ==
    /\ pc = "exec_wait"
    /\ \E w \in WaitOutcomes :
        IF w.st = "Exited"
        THEN Step(ExecAfter("exec_wait"), [sess EXCEPT !.exit_code = w.code], pipes,
                  WaitEvents(w))
        ELSE Fail(WaitErr(w), sess, pipes, WaitEvents(w))

\* The sync pipe fd put back into the session when the pidfile read fails.
SyncFdPutBack(s) == s

\* if let Some(fd) = self.sync_pipe_fd.take() { let container_pid =
\* self.read_container_pid(common)?; ... }: the `?` returns with fd, a local
\* of the if-let, dropped, and the field left None by take().
SyncFdDropped(s) == [s EXCEPT !.sync_pipe_fd = FALSE]

\* RuntimeSession::write_container_pid_file, then on to `next`.
write_container_pid_file(next) ==
    IF ~TakeSyncFd(sess) THEN Step(next, sess, pipes, <<>>)
    ELSE \E pidfile \in PidFiles, script \in SessionScripts :
        LET rp == read_container_pid(pidfile)
            r == write_or_close_sync_fd(rp.pid, None, cfg.api_version, FALSE,
                                        cfg.preserve_order, script)
            p2 == [pipes EXCEPT !.sync = @ \o r.written]
            ev == <<E("read_pidfile"), W("pid_msg", script, r)>>
        IN  IF ~rp.ok
            THEN Fail(rp.err, SyncFdDropped(sess), pipes, <<E("read_pidfile")>>)
            ELSE IF r.res = "Err"
            THEN Fail(ConmonError(<<Lit(r.msg)>>, 1),
                      [sess EXCEPT !.sync_pipe_fd = FALSE], p2, ev)
            ELSE Step(next, [sess EXCEPT !.sync_pipe_fd = r.fd], p2, ev)

\* The pipes of create_pipe are made with O_CLOEXEC alone, so they block.
ReadPipeReturnsAtOnce(stderr) == TRUE

\* read(2) on the read end of a pipe in blocking mode returns when the pipe
\* holds bytes or when its write end is closed.
ReadPipeReturns(stderr) == stderr.left # <<>> \/ ~stderr.open

\* RuntimeSession::write_exit_code, then on to `next`.
write_exit_code(next) ==
    IF ~TakeSyncFd(sess) THEN Step(next, sess, pipes, <<>>)
    ELSE IF ~sess.stdio
    THEN Step(next, [sess EXCEPT !.sync_pipe_fd = FALSE], pipes, <<>>)
    ELSE \E rd \in StderrReads(pipes.stderr), script \in SessionScripts :
        ReadPipeReturns(pipes.stderr) /\
        \E r \in {write_or_close_sync_fd(sess.exit_code, Some(rd.bytes), cfg.api_version,
                                         TRUE, cfg.preserve_order, script)} :
        LET p2 == [pipes EXCEPT !.sync = @ \o r.written]
            ev == <<E("read_stderr"), W("exit_msg", script, r)>>
            dropped == [sess EXCEPT !.sync_pipe_fd = FALSE]
        IN  IF rd.res = "Err"
            THEN Fail(IoErr("read() failed while reading pipe"), dropped, pipes,
                      <<E("read_stderr")>>)
            ELSE IF ~rd.utf8
            THEN Fail(IoErr("UTF-8 error"), dropped, pipes, <<E("read_stderr")>>)
            ELSE IF r.res = "Err"
            THEN Fail(ConmonError(<<Lit(r.msg)>>, 1), dropped, p2, ev)
            ELSE Step(next, [sess EXCEPT !.sync_pipe_fd = r.fd], p2, ev)

----------------------------------------------------------------------------
(* commands/exec.rs: Exec::exec after launch. *)

\* runtime_session.launch(...)? returned Ok
ExecLaunched ==
    /\ pc = "launch_done"
    /\ Step(ExecAfter("launch"), sess, pipes, <<>>)

ExecWritePid ==
    /\ pc = "exec_write_pid"
    /\ write_container_pid_file(ExecAfter("exec_write_pid"))

ExecWriteExit ==
    /\ pc = "exec_write_exit"
    /\ write_exit_code(ExecAfter("exec_write_exit"))

\* The container closes its stderr, at last, while the session is at the
\* exit-code write; a close before that is the choice ExecEventLoop makes.
ContainerStderrClose ==
    /\ pc = "exec_write_exit" /\ pipes.stderr.open
    /\ Step(pc, sess, [pipes EXCEPT !.stderr.open = FALSE], <<>>)

\* Ok(ExitCode::from(runtime_session.exit_code() as u8))
ExecReturn ==
    /\ pc = "exec_return"
    /\ Step("main_ret", [sess EXCEPT !.result = Ok(sess.exit_code % 256)], pipes, <<>>)

----------------------------------------------------------------------------
(* commands/create.rs: Create::exec, with run_runtime and wait_for_runtime   *)
(* of runtime/run.rs. It reads none of the pipe environment variables.       *)

\* generate_runtime_args(...)? (the Create generator cannot fail) and the two
\* create_pipe()? calls.
CreatePipes ==
    /\ pc = "create_pipes"
    /\ \E ok \in BOOLEAN :
        IF ok THEN Step("create_run_fork", [sess EXCEPT !.stdio = TRUE], pipes, <<>>)
        ELSE Fail(IoErr("Failed to create pipe"), sess, pipes, <<>>)

\* run_runtime: redirect_self_to_devnull()? and fork().
CreateRunFork ==
    /\ pc = "create_run_fork"
    /\ \E r \in {"ok", "devnull_failed", "fork_failed"} :
        IF r = "ok"
        THEN /\ pc' = "create_run_exec"
             /\ trace' = trace \o <<E("devnull"), E("fork")>>
             /\ outcome' = [orig |-> 0, child |-> -1]
             /\ UNCHANGED <<sp, cfg, env, sess, pipes>>
        ELSE Fail(IoErr(IF r = "fork_failed" THEN "Failed to fork" ELSE "Errno error"),
                  sess, pipes, IF r = "fork_failed" THEN <<E("devnull")>> ELSE <<>>)

\* run_runtime: block_signals()? and Command::spawn; returns child.id().
CreateRunExec ==
    /\ pc = "create_run_exec"
    /\ \E r \in {"ok", "sigmask_failed", "spawn_failed"} :
        IF r = "ok"
        THEN Step("create_pidfile", [sess EXCEPT !.runtime_pid = RuntimePid], pipes,
                  <<E("block_signals"), E("spawn")>>)
        ELSE Fail(IoErr(IF r = "spawn_failed" THEN "Failed to spawn"
                        ELSE "Failed to block signals"),
                  sess, pipes,
                  IF r = "spawn_failed" THEN <<E("block_signals")>> ELSE <<>>)

\* std::fs::write(pidfile, runtime_pid.to_string())?
CreateConmonPidfile ==
    /\ pc = "create_pidfile"
    /\ IF ~cfg.conmon_pidfile THEN Step("create_wait", sess, pipes, <<>>)
       ELSE \E ok \in BOOLEAN :
        IF ok THEN Step("create_wait", sess, pipes, <<E("conmon_pidfile")>>)
        ELSE Fail(IoErr("IO error"), sess, pipes, <<>>)

\* wait_for_runtime(runtime_pid)?, and the error for a status other than 0.
CreateWait ==
    /\ pc = "create_wait"
    /\ \E w \in WaitOutcomes :
        IF w.st # "Exited" THEN Fail(WaitErr(w), sess, pipes, WaitEvents(w))
        ELSE IF w.code # 0
        THEN Fail(ConmonError(<<Lit("Runtime exited with status: "),
                                Val(IntToStr(w.code))>>, 1),
                  [sess EXCEPT !.runtime_status = w.code], pipes, WaitEvents(w))
        ELSE Step("create_read_pid", [sess EXCEPT !.runtime_status = w.code], pipes,
                  WaitEvents(w))

\* let container_pid = self.read_container_pid()?; dbg!(container_pid)
CreateReadPid ==
    /\ pc = "create_read_pid"
    /\ \E pidfile \in PidFiles :
        LET rp == read_container_pid(pidfile) IN
        IF rp.ok THEN Step("create_stdio", sess, pipes, <<E("create_read_pidfile")>>)
        ELSE Fail(rp.err, sess, pipes, <<E("create_read_pidfile")>>)

\* handle_stdio(log_plugin, mainfd_stdout, mainfd_stderr)?; Ok(())
CreateStdio ==
    /\ pc = "create_stdio"
    /\ \E ok \in BOOLEAN :
        IF ok THEN Step("main_ret", [sess EXCEPT !.result = Ok(0)], pipes, <<E("mux")>>)
        ELSE Fail(IoErr("handle_stdio failed"), sess, pipes, <<E("mux")>>)

----------------------------------------------------------------------------
(* commands/restore.rs: Restore::exec builds the argv and returns success. *)

RestoreExec ==
    /\ pc = "restore"
    /\ Step("main_ret", [sess EXCEPT !.result = Ok(0)], pipes, <<E("restore_args")>>)

----------------------------------------------------------------------------
(* main.rs: main turns run_conmon's result into the process's exit status. *)

\* Err(e) => ExitCode::from(e.code); otherwise ExitCode::SUCCESS.
MainExit(result) == IF result.st = "err" THEN result.err.code ELSE 0

\* The command's value is dropped (a RuntimeSession releases its fds and
\* unlinks the attach socket) and the process ends.
MainReturn ==
    /\ pc = "main_ret"
    /\ pc' = "exited"
    /\ sess' = [sess EXCEPT !.sync_pipe_fd = FALSE, !.attach_pipe_fd = FALSE,
                            !.start_pipe_fd = FALSE, !.attach_socket = FALSE,
                            !.stdio = FALSE]
    /\ LET unlinks == DropUnlinks([some |-> sess.attach_socket, path |-> <<>>]) IN
       /\ trace' = trace \o (IF unlinks THEN <<E("unlink_attach")>> ELSE <<>>)
       /\ pipes' = [pipes EXCEPT !.attach_file = IF unlinks THEN FALSE ELSE @]
    /\ outcome' = IF Forked THEN [outcome EXCEPT !.child = MainExit(sess.result)]
                  ELSE [outcome EXCEPT !.orig = MainExit(sess.result)]
    /\ UNCHANGED <<sp, cfg, env>>

Next ==
    \/ Main
    \/ LaunchSyncPipe
    \/ LaunchAttachPipe
    \/ LaunchListen
    \/ LaunchAttachReady
    \/ LaunchStartPipe
    \/ LaunchPipes
    \/ SpawnFork
    \/ SpawnStartRead
    \/ SpawnExec
    \/ LaunchConmonPidfile
    \/ ExecLaunched
    \/ ExecEventLoop
    \/ ExecWait
    \/ ExecWritePid
    \/ ExecWriteExit
    \/ ContainerStderrClose
    \/ ExecReturn
    \/ CreatePipes
    \/ CreateRunFork
    \/ CreateRunExec
    \/ CreateConmonPidfile
    \/ CreateWait
    \/ CreateReadPid
    \/ CreateStdio
    \/ RestoreExec
    \/ MainReturn

Spec == Init /\ [][Next]_vars

\* The session's process runs on whenever it can: the exit-code write is
\* made once its read returns.  The container is under no obligation to
\* close its stderr.
\* Exec::exec alone, in the sessions that are given a sync pipe, without
\* --attach, the attach and start pipes and the conmon pidfile, which
\* write_exit_code does not touch.
InitLive ==
    /\ Init
    /\ cfg.cmd = "exec" /\ ~cfg.attach
    /\ ~cfg.conmon_pidfile /\ ~cfg.preserve_order
    /\ env.sync = EnvStr(<<"7">>)
    /\ env.attach = NotPresent /\ env.start = NotPresent

NextLive ==
    \/ Main
    \/ LaunchSyncPipe
    \/ LaunchAttachPipe
    \/ LaunchListen
    \/ LaunchAttachReady
    \/ LaunchStartPipe
    \/ LaunchPipes
    \/ SpawnFork
    \/ SpawnStartRead
    \/ SpawnExec
    \/ LaunchConmonPidfile
    \/ ExecLaunched
    \/ ExecEventLoop
    \/ ExecWait
    \/ ExecWritePid
    \/ ExecWriteExit
    \/ ContainerStderrClose
    \/ ExecReturn
    \/ MainReturn

SpecLive == InitLive /\ [][NextLive]_vars /\ WF_vars(ExecWriteExit)

----------------------------------------------------------------------------
(* C1 *)

\* The members the claim gives the object for the call sp.
C1_ExpectedMembers ==
    {[k |-> KeyChars(IF sp.api >= 1 THEN "data"
                     ELSE IF sp.exec THEN "exit_code" ELSE "pid"),
      v |-> IntVal(sp.int)]}
    \cup (IF sp.msg.some /\ sp.msg.val # <<>>
          THEN {[k |-> KeyChars("message"), v |-> StrVal(sp.msg.val)]}
          ELSE {})

\* C1: whenever write_or_close_sync_fd completes its write, the pipe holds
\* exactly one line, ending in a newline, that decodes to a JSON object whose
\* only integer member is `data` (API version >= 1), else `exit_code` (exec),
\* else `pid`, holding the given integer, plus `message` holding the given
\* string if and only if a non-empty message was supplied; there are no other
\* members and no member appears twice.
C1_OneJsonLineWithVersionedKey ==
    (sp.phase = "returned" /\ sp.ret.res = "Ok" /\ sp.ret.fd) =>
        LET d == DecodeLine(sp.ret.written) IN
        /\ d.ok
        /\ NewlineCount(sp.ret.written) = 1
        /\ sp.ret.written[Len(sp.ret.written)] = "\n"
        /\ Range(d.members) = C1_ExpectedMembers
        /\ Len(d.members) = Cardinality(C1_ExpectedMembers)

\* A legacy exec call whose message holds a raw newline was written in full
\* through a short write and an interrupted one.
C1_Witness ==
    /\ sp.phase = "returned" /\ sp.ret.res = "Ok" /\ sp.ret.fd
    /\ sp.api = 0 /\ sp.exec /\ sp.int = 42
    /\ sp.msg = Some(<<"\n">>)
    /\ sp.script = <<Wrote(1), WriteErr("EINTR")>>

----------------------------------------------------------------------------
(* Reading the history. *)

Idxs(name) == {i \in 1..Len(trace) : trace[i].ev = name}
Has(name) == Idxs(name) # {}
Count(name) == Cardinality(Idxs(name))

\* Every `b` has an `a` before it.
Precedes(a, b) == \A j \in Idxs(b) : \E i \in Idxs(a) : i < j

\* The first result in a script of write(2) results that ends write_all_fd
\* with an error ("none": the message is written in full). Messages are longer
\* than the bytes the scripted short writes take.
RECURSIVE FirstErr(_)
FirstErr(script) ==
    IF script = <<>> THEN "none"
    ELSE IF Head(script).r \in {"n", "EINTR"} THEN FirstErr(Tail(script))
    ELSE Head(script).r

SyncWrites == Idxs("pid_msg") \cup Idxs("exit_msg")
PipeWrites == SyncWrites \cup Idxs("attach_ready")

\* The variable holds something other than an i32: text that does not parse, or
\* bytes that are not Unicode.
NonInteger(value) ==
    \/ value.kind = "NotUnicode"
    \/ value.kind = "Str" /\ ~ParseI32(value.s).ok

IsFd(value) == value.kind = "Str" /\ ParseI32(value.s).ok

\* The exit status of the process that ran the session to its end: the child
\* of the first fork when there was one, the original process otherwise.
SessionExit == IF outcome.child >= 0 THEN outcome.child ELSE outcome.orig

----------------------------------------------------------------------------
(* C2 *)

\* C2: when a write on the sync pipe (or the attach pipe, written by the same
\* function) meets a closed read end, write_or_close_sync_fd returns success
\* and hands no fd back: the session no longer holds the sync fd and no later
\* sync-pipe hand-off is attempted; any other write error is fatal: the call
\* fails, the session ends with that error and the process exits with 1.
C2_EpipeDropsFdOtherErrorsFatal ==
    \A i \in PipeWrites :
        LET e == FirstErr(trace[i].script) IN
        /\ e = "EPIPE" =>
            /\ trace[i].res = "Ok" /\ ~trace[i].fd
            /\ i \in SyncWrites =>
                /\ ~sess.sync_pipe_fd
                /\ \A j \in SyncWrites : j <= i
        /\ e \notin {"none", "EPIPE"} =>
            /\ trace[i].res = "Err"
            /\ pc \in {"main_ret", "exited"}
            /\ sess.result.st = "err"
            /\ sess.result.err = ConmonError(<<Lit(SendErrMsg)>>, 1)
            /\ \A j \in PipeWrites : j <= i
            /\ pc = "exited" => SessionExit = 1
        /\ e = "none" => trace[i].res = "Ok" /\ trace[i].fd

\* An exec session whose container-PID write met a closed read end ran to its
\* end without error and without an exit-code write.
C2_Witness ==
    /\ cfg.cmd = "exec" /\ pc = "exited" /\ sess.result.st = "ok"
    /\ \E i \in Idxs("pid_msg") : FirstErr(trace[i].script) = "EPIPE"
    /\ ~Has("exit_msg")

----------------------------------------------------------------------------
(* C3 *)

\* C3: with _OCI_SYNCPIPE unset nothing is ever written to the sync pipe and
\* neither the container pidfile nor the stderr pipe is read for a hand-off;
\* write_container_pid_file and write_exit_code succeed as no-ops, so an exec
\* session that has waited for the runtime goes on to return success.
C3_NoSyncPipeNoWrite ==
    env.sync = NotPresent =>
        /\ pipes.sync = <<>>
        /\ ~Has("pid_msg") /\ ~Has("exit_msg")
        /\ ~Has("read_pidfile") /\ ~Has("read_stderr")
        /\ ~sess.sync_pipe_fd
        /\ (cfg.cmd = "exec" /\ Has("wait")) =>
            /\ pc \in {"exec_write_pid", "exec_write_exit", "exec_return",
                       "main_ret", "exited"}
            /\ pc \in {"main_ret", "exited"} => sess.result.st = "ok"

\* An exec session without a sync pipe has passed both hand-offs and ended.
C3_Witness ==
    /\ env.sync = NotPresent /\ cfg.cmd = "exec"
    /\ pc = "exited" /\ sess.result.st = "ok" /\ sess.exit_code = 7

----------------------------------------------------------------------------
(* C4 *)

\* C4: when _OCI_SYNCPIPE holds a non-integer value the session never forks,
\* never binds the attach socket, never reads the start pipe and never spawns
\* the runtime, and it ends with an error whose message contains
\* "not an integer".
C4_NonIntegerSyncPipeFailsBeforeSpawn ==
    NonInteger(env.sync) =>
        /\ ~Has("fork") /\ ~Has("listen") /\ ~Has("start_read") /\ ~Has("spawn")
        /\ pc \in {"main_ret", "exited"} =>
            /\ sess.result.st = "err"
            /\ Contains(sess.result.err.msg, "not an integer")

----------------------------------------------------------------------------
(* C5 *)

\* C5: when _OCI_STARTPIPE names an fd, the runtime is spawned only after a
\* read of the start pipe has completed; when attaching, a second read
\* completes between the first fork and the spawn; when not attaching there
\* is exactly one read and the fd is not held any more at the first fork.
C5_StartPipeReadBeforeSpawn ==
    (IsFd(env.start) /\ Has("spawn")) =>
        /\ \E i \in Idxs("start_read") : \A j \in Idxs("fork") : i < j
        /\ cfg.attach =>
            /\ Count("start_read") = 2
            /\ \E i \in Idxs("start_read") :
                /\ \A j \in Idxs("fork") : j < i
                /\ \A j \in Idxs("spawn") : i < j
        /\ ~cfg.attach => Count("start_read") = 1

----------------------------------------------------------------------------
(* C6 *)

\* The attach pipe holds exactly the zero-payload readiness message.
AttachReadyWritten ==
    LET d == DecodeLine(pipes.attach) IN
    /\ d.ok
    /\ Range(d.members) = {[k |-> KeyChars(DataKey(cfg.api_version, TRUE)), v |-> IntVal(0)]}

\* C6 as stated: in a session with attach, at every step from the read of
\* the start pipe on, and so when the runtime is spawned, the attach socket is
\* bound and the readiness message has been written on _OCI_ATTACHPIPE.
C6_ReadinessWrittenBeforeSpawn ==
    (cfg.attach /\ (Has("spawn") \/ Has("start_read") \/ Has("fork"))) =>
        /\ Precedes("listen", "start_read") /\ Precedes("listen", "spawn")
        /\ Has("listen")
        /\ AttachReadyWritten

\* C6, amended: the socket is bound and the readiness write has been made, in
\* that order, before the start pipe is read and before the fork and the
\* spawn; the message is on the pipe unless the write met a closed read end,
\* which is accepted silently.
C6_ReadinessReportedBeforeSpawn ==
    (cfg.attach /\ (Has("spawn") \/ Has("start_read") \/ Has("fork"))) =>
        /\ Count("listen") = 1 /\ Count("attach_ready") = 1
        /\ \A l \in Idxs("listen"), r \in Idxs("attach_ready") :
            /\ l < r
            /\ \A j \in Idxs("start_read") \cup Idxs("fork") \cup Idxs("spawn") : r < j
            /\ trace[r].res = "Ok"
            /\ FirstErr(trace[r].script) = "none" => AttachReadyWritten
            /\ FirstErr(trace[r].script) # "none" => FirstErr(trace[r].script) = "EPIPE"
        /\ Has("spawn") /\ pc # "exited" => sess.attach_socket

\* An attaching session has spawned the runtime with the readiness message on
\* the attach pipe.
C6_Witness ==
    /\ cfg.attach /\ Has("spawn") /\ AttachReadyWritten /\ sess.attach_socket
    /\ Count("start_read") = 2

----------------------------------------------------------------------------
(* C7 *)

\* The exit code the session has reaped from the runtime (-1: none yet).
ReapedCode == IF cfg.cmd = "exec" THEN sess.exit_code ELSE sess.runtime_status

\* C7: in every kind of session, a container-PID message is put on the sync
\* pipe only after the runtime has been waited for and has exited with
\* status 0.
C7_PidOnlyAfterRuntimeSuccess ==
    Has("pid_msg") =>
        /\ Precedes("wait", "pid_msg")
        /\ ReapedCode = 0

----------------------------------------------------------------------------
(* C8 *)

\* C8: a session makes at most one container-PID write and at most one
\* exit-code write on the sync pipe, and never a container-PID write after an
\* exit-code write.
C8_OnePidOneExitPidFirst ==
    /\ Count("pid_msg") <= 1
    /\ Count("exit_msg") <= 1
    /\ \A i \in Idxs("exit_msg"), j \in Idxs("pid_msg") : j < i

\* A session has written its container PID and then its exit code.
C8_Witness ==
    /\ Count("pid_msg") = 1 /\ Count("exit_msg") = 1
    /\ NewlineCount(pipes.sync) = 2
    /\ pc = "exited"

----------------------------------------------------------------------------
(* C9 *)

\* C9: when an exec session runs to completion, the exit status of the
\* supervisor process is the runtime's exit code, and so is 0 only when the
\* runtime exited 0.
C9_ExecExitStatusIsRuntimeExitCode ==
    (cfg.cmd = "exec" /\ pc = "exited" /\ sess.result.st = "ok") =>
        /\ SessionExit = sess.exit_code
        /\ SessionExit = 0 => sess.exit_code = 0

----------------------------------------------------------------------------
(* C10 *)

\* C10: in a create or restore session the runtime is waited for before
\* anything else follows the spawn; when it exited with a code other than 0
\* and a sync pipe is held, that code is written to the sync pipe and the
\* session fails without its stdio being multiplexed; when it exited 0, the
\* container PID is read from the pidfile and forwarded on the sync pipe
\* before the multiplexer starts.
C10_CreateRestoreReportsBeforeMux ==
    (cfg.cmd \in {"create", "restore"} /\ IsFd(env.sync)) =>
        /\ Precedes("wait", "mux")
        /\ (pc = "exited" /\ ReapedCode > 0) =>
            /\ Has("exit_msg") /\ ~Has("mux") /\ sess.result.st = "err"
        /\ (Has("mux") /\ ReapedCode = 0) => Precedes("pid_msg", "mux")

----------------------------------------------------------------------------
(* SpecStdio: handle_stdio (src/src/runtime/stdio.rs) on its own, against a  *)
(* container writing to and closing its stdout and stderr, and console       *)
(* clients connecting to the attach socket, sending and going away.          *)

\* bytes the container writes to each of its streams
MaxStreamBytes == 2
\* most bytes one read(2) returns: the size of buf
MaxReadLen == 2

Streams == {"out", "err"}
Clients == {"c1", "c2"}

\* The k-th byte a writer sends: bytes are told apart by writer and position.
Byte(w, k) == [w |-> w, k |-> k]

PollFd(fd) == [fd |-> fd, revents |-> {}]

\* poll(2) on a pipe's read end: readable while bytes are buffered, hung up
\* once the write end is closed; whether end-of-file alone is also reported
\* as readable depends on the kind of fd behind it (eof_in).
PipeRevents(p, eof_in) ==
    (IF p.buf # <<>> \/ (~p.open /\ eof_in) THEN {"IN"} ELSE {})
        \cup (IF ~p.open THEN {"HUP"} ELSE {})

\* poll(2) on a connected unix socket: a peer that went away is reported as
\* readable together with the hang-up.
RemoteRevents(c) ==
    (IF c.buf # <<>> \/ c.ended # "no" THEN {"IN"} ELSE {})
        \cup (IF c.ended # "no" THEN {"HUP"} ELSE {})

Revents(st, fd, eof_in) ==
    CASE fd \in Streams -> PipeRevents(st[fd], eof_in)
      [] fd = "attach" -> IF st.backlog # <<>> THEN {"IN"} ELSE {}
      [] OTHER -> RemoteRevents(st.cl[fd])

\* Vec::swap_remove: the last element takes the place of the removed one.
SwapRemove(v, i) ==
    IF i = Len(v) THEN SubSeq(v, 1, Len(v) - 1)
    ELSE [k \in 1..(Len(v) - 1) |-> IF k = i THEN v[Len(v)] ELSE v[k]]

\* Every chunk is treated as the end of the container's stdio.
StdioReadReturnsAlways(n) == TRUE

\* if n > 0 { log } else { return Ok(()) }
StdioReadReturns(n) == n = 0

\* The fd identity is lost: everything is logged as stdout.
IsStdoutAlways(fd) == TRUE

\* let is_stdout = fd == stdout_fd
IsStdout(fd) == fd = "out"

\* The plugin's error is returned from handle_stdio.
PluginErrorPropagates(r) == r = "Err"

\* let _ = log_plugin.write(is_stdout, &buf[..n])
PluginErrorEnds(r) == FALSE

\* stdin is closed whenever a client is removed.
DropStdinOnRemoveAlways(leave_stdin_open) == TRUE

\* remote.socket_type == SocketType::Console && !leave_stdin_open
DropStdinOnRemove(leave_stdin_open) == ~leave_stdin_open

\* Any error of accept(2) but EWOULDBLOCK is returned to the caller.
UnixSocketAcceptFatal(socket_type, r) ==
    CASE r = "ok" -> [res |-> "Ok", some |-> TRUE, socket_type |-> socket_type,
                      warned |-> FALSE]
      [] r = "EWOULDBLOCK" -> [res |-> "Ok", some |-> FALSE, socket_type |-> "",
                               warned |-> FALSE]
      [] OTHER -> [res |-> "Err", some |-> FALSE, socket_type |-> "", warned |-> FALSE]

\* unix_socket.rs, UnixSocket::accept on a socket that listens: r is the
\* result of accept(2).
UnixSocketAccept(socket_type, r) ==
    CASE r = "ok" -> [res |-> "Ok", some |-> TRUE, socket_type |-> socket_type,
                      warned |-> FALSE]
      [] r = "EWOULDBLOCK" -> [res |-> "Ok", some |-> FALSE, socket_type |-> "",
                               warned |-> FALSE]
      [] OTHER -> [res |-> "Ok", some |-> FALSE, socket_type |-> "", warned |-> TRUE]

AcceptResults == {"ok", "EWOULDBLOCK", "ECONNABORTED"}

\* The streams whose chunks the log plugin fails to write.
PluginFailures == {{}, {"err"}, {"out", "err"}}

\* Bytes the container writes to each stream in a run: output is studied
\* without console clients, console clients with a silent container.
StreamQuota(att) == IF att THEN 0 ELSE MaxStreamBytes

NewPipe == [buf |-> <<>>, open |-> TRUE, sent |-> 0]
NewClient == [st |-> "new", buf |-> <<>>, ended |-> "no", sent |-> 0, closes |-> 0]

InitStdio ==
    /\ \E lso \in BOOLEAN, stdin \in BOOLEAN, att \in BOOLEAN, bad \in PluginFailures :
        /\ att => bad = {}
        /\ sp = [phase |-> "poll", leave_stdin_open |-> lso, had_stdin |-> stdin,
              plugin_fails |-> bad, quota |-> StreamQuota(att),
              workerfd_stdin |-> stdin, attach |-> att,
              out |-> NewPipe, err |-> NewPipe,
              backlog |-> <<>>, cl |-> [c \in Clients |-> NewClient],
              fds |-> <<PollFd("out"), PollFd("err")>>
                        \o (IF att THEN <<PollFd("attach")>> ELSE <<>>),
              remote_base |-> IF att THEN 4 ELSE 3,
              remote_sockets |-> <<>>, i |-> 1,
              reads |-> <<>>, log |-> <<>>, input |-> <<>>, stdin_data |-> <<>>,
              result |-> "none", cause |-> "",
              last_accept |-> [r |-> "none", ret |-> UnixSocketAccept("Console", "EWOULDBLOCK")],
              ready |-> {}, handled |-> <<>>, errno |-> ""]
    /\ SessIdle

StdioStep(nsp) == sp' = nsp /\ UNCHANGED sessVars

\* The world moves while the multiplexer is blocked in poll. A change made
\* during the scan is seen as if made before the poll (for an fd whose revents
\* already hold POLLIN) or after the scan (for any other fd), so these are the
\* interleavings that differ.
StdioRunning == sp.phase = "poll"

(* The world around the multiplexer. *)

ContainerWrite ==
    /\ StdioRunning
    /\ \E s \in Streams :
        /\ sp[s].open /\ sp[s].sent < sp.quota
        /\ StdioStep([sp EXCEPT ![s].buf = @ \o <<Byte(s, sp[s].sent + 1)>>,
                                ![s].sent = @ + 1])

ContainerClose ==
    /\ StdioRunning
    /\ \E s \in Streams :
        /\ sp[s].open
        /\ StdioStep([sp EXCEPT ![s].open = FALSE])

ClientConnect ==
    /\ StdioRunning /\ sp.attach
    /\ \E c \in Clients :
        /\ sp.cl[c].st = "new"
        /\ StdioStep([sp EXCEPT !.cl[c].st = "queued", !.backlog = Append(@, c)])

ClientSend ==
    /\ StdioRunning
    /\ \E c \in Clients :
        /\ sp.cl[c].st \in {"queued", "accepted"}
        /\ sp.cl[c].ended = "no" /\ sp.cl[c].sent = 0
        /\ StdioStep([sp EXCEPT !.cl[c].buf = @ \o <<Byte(c, 1)>>, !.cl[c].sent = 1])

\* The client closes its end, or the connection breaks.
ClientEnd ==
    /\ StdioRunning
    /\ \E c \in Clients, how \in {"eof", "reset"} :
        /\ sp.cl[c].st \in {"queued", "accepted"}
        /\ sp.cl[c].ended = "no"
        /\ StdioStep([sp EXCEPT !.cl[c].ended = how])

(* handle_stdio. *)

\* A return of handle_stdio: remote_sockets goes, and with it the fd of
\* every client still in it is closed.
StdioReturn(st, res, cause) ==
    StdioStep([st EXCEPT !.phase = "returned", !.result = res, !.cause = cause,
                         !.cl = [c \in Clients |->
                                    IF c \in Range(st.remote_sockets)
                                    THEN [@[c] EXCEPT !.closes = @ + 1] ELSE @[c]]])

\* let n = poll(&mut fds, PollTimeout::NONE): blocks until an fd has an event.
Poll ==
    /\ sp.phase = "poll"
    /\ \E eof_in \in BOOLEAN :
        LET nfds == [k \in 1..Len(sp.fds) |->
                        [sp.fds[k] EXCEPT !.revents = Revents(sp, sp.fds[k].fd, eof_in)]]
        IN  /\ \E k \in 1..Len(nfds) : nfds[k].revents # {}
            /\ StdioStep([sp EXCEPT !.fds = nfds, !.i = 1, !.phase = "scan",
                                    !.ready = {nfds[k].fd : k \in {x \in 1..Len(nfds) :
                                                                     nfds[x].revents # {}}},
                                    !.handled = <<>>])

\* Errors of poll(2) and of read(2) on a pipe.
PollErrnos == {"EINTR", "ENOMEM"}
ReadErrnos == {"EINTR", "EAGAIN", "EWOULDBLOCK", "EIO"}

\* poll(...).map_err(...)?: every errno is mapped to an error and returned.
PollErrorFatal(e) == TRUE

ReadErrorSkipsNever(e) == FALSE

\* if err == Errno::EWOULDBLOCK || err == Errno::EAGAIN { i += 1; continue }
ReadErrorSkips(e) == e \in {"EWOULDBLOCK", "EAGAIN"}

PollFail ==
    /\ sp.phase = "poll"
    /\ \E e \in PollErrnos :
        /\ PollErrorFatal(e)
        /\ StdioReturn([sp EXCEPT !.errno = e], "Err", "poll")

\* A step of the walk that handles the entry at i, and a return from it: the
\* entry is noted as handled in this walk.
ScanStep(nsp) == StdioStep([nsp EXCEPT !.handled = Append(@, sp.fds[sp.i].fd)])

ScanReturn(st, res, cause) ==
    StdioReturn([st EXCEPT !.handled = Append(@, sp.fds[sp.i].fd)], res, cause)

ScanAt(fdset) ==
    /\ sp.phase = "scan" /\ sp.i <= Len(sp.fds)
    /\ sp.fds[sp.i].fd \in fdset

\* 1) attach socket ready: accept a new RemoteSocket.
\* if let Some(remote) = attach.accept()? { push } i += 1
ScanAccept ==
    /\ ScanAt({"attach"}) /\ "IN" \in sp.fds[sp.i].revents
    /\ \E r \in AcceptResults :
        /\ r = "ok" => sp.backlog # <<>>
        /\ LET a == UnixSocketAccept("Console", r)
               st == [sp EXCEPT !.last_accept = [r |-> r, ret |-> a]]
           IN  IF a.res = "Err" THEN ScanReturn(st, "Err", "accept")
               ELSE IF a.some
               THEN LET c == Head(sp.backlog) IN
                    ScanStep([st EXCEPT !.backlog = Tail(@), !.cl[c].st = "accepted",
                                         !.remote_sockets = Append(@, c),
                                         !.fds = Append(@, PollFd(c)), !.i = @ + 1])
               ELSE ScanStep([st EXCEPT !.i = @ + 1])

\* 2) stdout / stderr ready: read and forward to the log plugin.
ScanStdio ==
    /\ ScanAt(Streams) /\ "IN" \in sp.fds[sp.i].revents
    /\ LET fd == sp.fds[sp.i].fd
           n == Min(Len(sp[fd].buf), MaxReadLen)
           data == SubSeq(sp[fd].buf, 1, n)
           plugin == IF fd \in sp.plugin_fails THEN "Err" ELSE "Ok"
       IN \E r \in {"read"} \cup ReadErrnos :
            CASE r \in ReadErrnos /\ ReadErrorSkips(r) ->
                    ScanStep([sp EXCEPT !.i = @ + 1])
              [] r \in ReadErrnos /\ ~ReadErrorSkips(r) ->
                    ScanReturn([sp EXCEPT !.errno = r], "Err", "read")
              [] OTHER ->
                    /\ n > 0 \/ ~sp[fd].open
                    /\ IF StdioReadReturns(n)
                       THEN ScanReturn([sp EXCEPT !.reads = Append(@, [fd |-> fd, data |-> data])],
                                        "Ok", "eof")
                       ELSE LET st == [sp EXCEPT
                                    ![fd].buf = SubSeq(@, n + 1, Len(@)),
                                    !.reads = Append(@, [fd |-> fd, data |-> data]),
                                    !.log = Append(@, [is_stdout |-> IsStdout(fd),
                                                       data |-> data, res |-> plugin]),
                                    !.i = @ + 1]
                            IN  IF PluginErrorEnds(plugin)
                                THEN ScanReturn(st, "Err", "plugin")
                                ELSE ScanStep(st)

FdsAfterRemoveKept(v, i) == v

\* fds.swap_remove(i), next to remote_sockets.swap_remove(remote_idx)
FdsAfterRemove(v, i) == SwapRemove(v, i)

WalkAfterRemoveAdvances(i) == i + 1

\* do NOT increment i: we need to process the fd that got swapped in
WalkAfterRemove(i) == i

\* EOF or a fatal error on a remote: drop it, and with it the container's stdin
\* unless it is to be left open; i stays, the fd swapped in is processed next.
RemoveRemote(st, how) ==
    LET c == st.remote_sockets[st.i - st.remote_base + 1] IN
    [st EXCEPT !.remote_sockets = SwapRemove(@, st.i - st.remote_base + 1),
               !.fds = FdsAfterRemove(@, st.i),
               !.i = WalkAfterRemove(@),
               !.cl[c].st = "removed",
               !.cl[c].closes = @ + 1,
               !.workerfd_stdin = IF DropStdinOnRemove(st.leave_stdin_open) THEN FALSE ELSE @,
               !.input = Append(@, [ev |-> how, c |-> c, data |-> <<>>, to |-> ""])]

\* The end of a client is taken for the end of the container's stdio.
RemoteEofReturnsAlways(n) == n = 0

\* recvfrom on a remote returned 0 bytes: the remote is dropped, nothing is
\* returned.
RemoteEofReturns(n) == FALSE

\* 3) RemoteSocket ready: forward console input to the container's stdin.
ScanRemote ==
    /\ ScanAt(Clients) /\ "IN" \in sp.fds[sp.i].revents
    /\ LET c == sp.remote_sockets[sp.i - sp.remote_base + 1]
           n == Min(Len(sp.cl[c].buf), MaxReadLen)
           data == SubSeq(sp.cl[c].buf, 1, n)
       IN \E r \in {"recv", "EAGAIN"}, w \in {"ok", "EPIPE"} :
            IF r = "EAGAIN" THEN ScanStep([sp EXCEPT !.i = @ + 1])
            ELSE IF n > 0
            THEN LET to == IF ~sp.workerfd_stdin THEN "none"
                           ELSE IF w = "ok" THEN "stdin" ELSE "failed"
                     st == [sp EXCEPT
                              !.cl[c].buf = SubSeq(@, n + 1, Len(@)),
                              !.input = Append(@, [ev |-> "recv", c |-> c, data |-> data,
                                                   to |-> to]),
                              !.stdin_data = IF to = "stdin" THEN @ \o data ELSE @,
                              !.i = @ + 1]
                 IN  IF to = "failed" THEN ScanReturn([st EXCEPT !.i = sp.i], "Err", "stdin")
                     ELSE ScanStep(st)
            ELSE /\ sp.cl[c].ended # "no"
                 /\ IF RemoteEofReturns(n) THEN ScanReturn(sp, "Ok", "eof")
                    ELSE ScanStep(RemoveRemote(sp, sp.cl[c].ended))

\* else if revents.contains(POLLHUP) { return Ok(()) }
ScanHup ==
    /\ ScanAt(Streams \cup Clients \cup {"attach"})
    /\ "IN" \notin sp.fds[sp.i].revents /\ "HUP" \in sp.fds[sp.i].revents
    /\ ScanReturn(sp, "Ok", "hup")

\* no event on this fd: i += 1
ScanSkip ==
    /\ ScanAt(Streams \cup Clients \cup {"attach"})
    /\ sp.fds[sp.i].revents = {}
    /\ StdioStep([sp EXCEPT !.i = @ + 1])

\* while i < fds.len() is over: back to poll
ScanEnd ==
    /\ sp.phase = "scan" /\ sp.i > Len(sp.fds)
    /\ StdioStep([sp EXCEPT !.phase = "poll", !.ready = {}, !.handled = <<>>])

NextStdio ==
    \/ ContainerWrite \/ ContainerClose
    \/ ClientConnect \/ ClientSend \/ ClientEnd
    \/ Poll \/ PollFail
    \/ ScanAccept \/ ScanStdio \/ ScanRemote \/ ScanHup \/ ScanSkip \/ ScanEnd

SpecStdio == InitStdio /\ [][NextStdio]_vars

----------------------------------------------------------------------------
(* C11 *)

\* C11 as stated: handle_stdio has returned success only when the container's
\* stdout and stderr have both closed.
C11_SuccessOnlyWhenBothClosed ==
    sp.phase = "returned" /\ sp.result = "Ok" => ~sp.out.open /\ ~sp.err.open

\* C11, amended: handle_stdio returns success as soon as one of the two
\* streams has closed and been read to its end (end-of-file read from it, or a
\* hang-up with nothing left to read); it never returns success while both
\* are open.
C11_SuccessOnlyWhenOneClosed ==
    sp.phase = "returned" /\ sp.result = "Ok" =>
        /\ sp.cause \in {"eof", "hup"}
        /\ \E s \in Streams : ~sp[s].open /\ sp[s].buf = <<>>

\* handle_stdio has returned success on the close of stdout with stderr still
\* open and holding unread bytes.
C11_Witness ==
    /\ sp.phase = "returned" /\ sp.result = "Ok"
    /\ ~sp.out.open /\ sp.err.open /\ sp.err.buf # <<>>

----------------------------------------------------------------------------
(* C12 *)

\* The reads that returned bytes, in order.
ChunkReads == SelectSeq(sp.reads, LAMBDA r : r.data # <<>>)

\* C12: an error of the log plugin neither ends handle_stdio nor drops what
\* is read afterwards: every chunk read, before and after a failed write, has
\* led to a call of the plugin, and handle_stdio fails only on poll, on a read
\* of stdout/stderr or on a write to the container's stdin.
C12_PluginErrorsIgnored ==
    sp.phase \in {"poll", "scan", "returned"} =>
        /\ Len(sp.log) = Len(ChunkReads)
        /\ sp.cause # "plugin"
        /\ sp.result = "Err" => sp.cause \in {"poll", "read", "stdin"}

\* After a failed plugin write for stderr a chunk of stdout was still passed
\* to the plugin, and handle_stdio returned success.
C12_Witness ==
    /\ sp.phase = "returned" /\ sp.result = "Ok"
    /\ \E j, k \in 1..Len(sp.log) :
        /\ j < k
        /\ sp.log[j].res = "Err" /\ ~sp.log[j].is_stdout
        /\ sp.log[k].is_stdout

----------------------------------------------------------------------------
(* C13 *)

Removals == {j \in 1..Len(sp.input) : sp.input[j].ev \in {"eof", "reset"}}
Received == {j \in 1..Len(sp.input) : sp.input[j].ev = "recv"}

RECURSIVE Flatten(_)
Flatten(chunks) ==
    IF chunks = <<>> THEN <<>> ELSE Head(chunks).data \o Flatten(Tail(chunks))

\* C13: with leave_stdin_open = false, once a console client has been removed
\* (end-of-file or fatal receive error) the stdin write end is gone and no
\* byte received afterwards, from any client, reaches the container's stdin;
\* with leave_stdin_open = true the write end is never dropped and every byte
\* received from a console client is written to the container's stdin, in the
\* order received (a failed write ends handle_stdio with the error).
C13_LeaveStdinOpen ==
    sp.phase \in {"poll", "scan", "returned"} =>
        /\ ~sp.leave_stdin_open =>
            /\ Removals # {} => ~sp.workerfd_stdin
            /\ \A j \in Removals, k \in Received : j < k => sp.input[k].to = "none"
            /\ (Removals = {} /\ sp.had_stdin) => sp.workerfd_stdin
        /\ sp.leave_stdin_open =>
            /\ sp.workerfd_stdin = sp.had_stdin
            /\ sp.had_stdin =>
                \A k \in Received :
                    \/ sp.input[k].to = "stdin"
                    \/ /\ sp.input[k].to = "failed" /\ k = Len(sp.input)
                       /\ sp.result = "Err" /\ sp.cause = "stdin"
        /\ sp.stdin_data =
            Flatten(SelectSeq(sp.input, LAMBDA e : e.ev = "recv" /\ e.to = "stdin"))

\* With leave_stdin_open = false the first client's byte reached stdin, the
\* client was removed, and the second client's byte was received and dropped.
C13_Witness ==
    /\ ~sp.leave_stdin_open /\ sp.had_stdin
    /\ sp.stdin_data = <<Byte("c1", 1)>>
    /\ \E j \in Removals, k \in Received :
        /\ j < k /\ sp.input[j].c = "c1"
        /\ sp.input[k].c = "c2" /\ sp.input[k].to = "none"

----------------------------------------------------------------------------
(* C14 *)

StreamData(s) ==
    Flatten(SelectSeq(sp.log, LAMBDA e : e.is_stdout = (s = "out")))

\* C14: the calls of the log plugin are exactly the non-empty chunks read, one
\* call per chunk in the order read, is_stdout true for chunks of stdout and
\* false for chunks of stderr, bytes unchanged: per stream, the bytes logged
\* are the bytes the container wrote, in order, up to what is still unread.
C14_EveryChunkLoggedOnce ==
    sp.phase \in {"poll", "scan", "returned"} =>
        /\ Len(sp.log) = Len(ChunkReads)
        /\ \A k \in 1..Len(sp.log) :
            /\ sp.log[k].is_stdout = (ChunkReads[k].fd = "out")
            /\ sp.log[k].data = ChunkReads[k].data
        /\ \A s \in Streams :
            StreamData(s) \o sp[s].buf = [k \in 1..sp[s].sent |-> Byte(s, k)]

\* Two chunks of stdout and one of stderr between them were logged.
C14_Witness ==
    /\ Len(sp.log) = 3
    /\ sp.log[1] = [is_stdout |-> TRUE, data |-> <<Byte("out", 1)>>, res |-> "Ok"]
    /\ sp.log[2].is_stdout = FALSE /\ sp.log[2].data = <<Byte("err", 1), Byte("err", 2)>>
    /\ sp.log[3].is_stdout /\ sp.log[3].data = <<Byte("out", 2)>>

----------------------------------------------------------------------------
(* C35 *)

\* C35: when handle_stdio has returned success, every byte the container
\* wrote to a stream whose write end it then closed has been passed to the
\* log plugin: none is left in the pipe.
C35_NoOutputLost ==
    (sp.phase = "returned" /\ sp.result = "Ok")
    => \A s \in Streams :
          ~sp[s].open => /\ sp[s].buf = <<>>
                         /\ StreamData(s) = [k \in 1..sp[s].sent |-> Byte(s, k)]

----------------------------------------------------------------------------
(* C36 *)

\* C36: the entries of fds from remote_base on are the clients of
\* remote_sockets, one for one and in the same order, and there are no other
\* entries of clients; a client is in remote_sockets once at most and its fd
\* is open while it is there; the fd of a client is closed once when the
\* client is removed or when handle_stdio returns, and never again.
C36_VectorsAligned ==
    /\ Len(sp.fds) = sp.remote_base - 1 + Len(sp.remote_sockets)
    /\ \A k \in 1..Len(sp.remote_sockets) :
          sp.fds[sp.remote_base - 1 + k].fd = sp.remote_sockets[k]
    /\ \A j \in 1..Len(sp.fds) : j < sp.remote_base => sp.fds[j].fd \notin Clients
    /\ \A a, b \in 1..Len(sp.remote_sockets) :
          a # b => sp.remote_sockets[a] # sp.remote_sockets[b]
    /\ \A c \in Clients :
          /\ c \in Range(sp.remote_sockets) <=> sp.cl[c].st = "accepted"
          /\ sp.cl[c].closes =
                IF sp.cl[c].st = "removed"
                   \/ (sp.cl[c].st = "accepted" /\ sp.phase = "returned")
                THEN 1 ELSE 0

\* The first of two clients was removed and the second took its index; the
\* second was closed when handle_stdio returned.
C36_Witness ==
    /\ sp.phase = "returned"
    /\ sp.cl["c1"].st = "removed" /\ sp.cl["c1"].closes = 1
    /\ sp.cl["c2"].st = "accepted" /\ sp.cl["c2"].closes = 1
    /\ sp.remote_sockets = <<"c2">> /\ sp.fds[sp.remote_base].fd = "c2"

----------------------------------------------------------------------------
(* C30 *)

\* The walk has run to its end: while i < fds.len() is over.
C30_WalkOver == sp.phase = "scan" /\ sp.i > Len(sp.fds)

C30_NoneTwice ==
    \A a, b \in 1..Len(sp.handled) : a # b => sp.handled[a] # sp.handled[b]

\* C30 as stated: when a walk ends, by running to its end or by a return of
\* handle_stdio, every entry its poll reported ready was handled once.
C30_EveryReadyEntryOnce ==
    /\ C30_NoneTwice
    /\ (C30_WalkOver \/ sp.phase = "returned") => Range(sp.handled) = sp.ready

\* C30, amended: a walk handles no entry twice and none that its poll did
\* not report ready, and it never moves past a ready entry without handling
\* it, so that a walk which runs to its end has handled every ready entry
\* once, the clients accepted and removed on the way notwithstanding; a walk
\* that handle_stdio returns from stops at the entry it returned at.
C30_EveryReadyEntryOnceInFullWalk ==
    /\ C30_NoneTwice
    /\ Range(sp.handled) \subseteq sp.ready
    /\ sp.phase = "scan"
       => \A k \in 1..Len(sp.fds) :
             (k < sp.i /\ sp.fds[k].revents # {}) => sp.fds[k].fd \in Range(sp.handled)
    /\ sp.phase = "scan"
       => \A fd \in sp.ready \ Range(sp.handled) :
             \E k \in sp.i..Len(sp.fds) : sp.fds[k].fd = fd /\ sp.fds[k].revents # {}
    /\ C30_WalkOver => Range(sp.handled) = sp.ready
    /\ sp.phase = "returned" /\ sp.handled # <<>>
       => sp.fds[sp.i].fd = sp.handled[Len(sp.handled)]

\* Both clients were ready; the first was removed at index 4 and the second,
\* swapped in from index 5, was handled in the same walk.
C30_Witness ==
    /\ C30_WalkOver
    /\ sp.handled = <<"c1", "c2">>
    /\ sp.cl["c1"].st = "removed"
    /\ Len(sp.fds) = 4 /\ sp.fds[4].fd = "c2"

\* A client was accepted in a walk, and its entry, appended without events,
\* was passed over.
C30_WitnessAppended ==
    /\ C30_WalkOver
    /\ sp.handled = <<"attach">>
    /\ Len(sp.fds) = 4 /\ sp.fds[4].revents = {}

----------------------------------------------------------------------------
(* C31 *)

\* C31: handle_stdio never returns because poll or a read of stdout or
\* stderr was interrupted (EINTR) or because a read would block; when it
\* returns over an error of poll or of such a read, it returns an error and
\* the errno was another one.
C31_EintrRetriedAgainSkipped ==
    (sp.phase = "returned" /\ sp.errno # "")
    => /\ sp.result = "Err" /\ sp.cause \in {"poll", "read"}
       /\ sp.errno \notin {"EINTR", "EAGAIN", "EWOULDBLOCK"}

----------------------------------------------------------------------------
(* C32 *)

\* C32: a write to the container's stdin that fails does not end the
\* multiplexer: handle_stdio never returns over it, and the bytes of a
\* console client reach the stdin only through such writes.
C32_StdinWriteBestEffort ==
    /\ sp.phase = "returned" => sp.cause # "stdin"
    /\ \A k \in 1..Len(sp.input) :
          sp.input[k].to = "failed" => sp.phase # "returned" \/ k < Len(sp.input)

----------------------------------------------------------------------------
(* C33 *)

\* C33: handle_stdio has returned success only at the entry of stdout or of
\* stderr, over its end of file or its hang-up; a client whose end, reset or
\* hang-up was met is in neither vector any more, and handle_stdio has not
\* returned at the entry of a client but over an error.
C33_SuccessOnlyOverBuiltinFd ==
    /\ (sp.phase = "returned" /\ sp.result = "Ok")
       => /\ sp.cause \in {"eof", "hup"}
          /\ sp.i <= Len(sp.fds) /\ sp.fds[sp.i].fd \in Streams
          /\ ~sp[sp.fds[sp.i].fd].open
    /\ \A k \in 1..Len(sp.input) :
          sp.input[k].ev \in {"eof", "reset"}
          => /\ sp.input[k].c \notin Range(sp.remote_sockets)
             /\ \A j \in 1..Len(sp.fds) : sp.fds[j].fd # sp.input[k].c
             /\ sp.cl[sp.input[k].c].st = "removed"
    /\ \A c \in Clients :
          (sp.cl[c].st = "accepted" /\ sp.phase # "returned")
          => c \in Range(sp.remote_sockets) /\ \E j \in 1..Len(sp.fds) : sp.fds[j].fd = c

\* Both clients went away, one by closing and one by a reset, and the
\* multiplexer went on until the container closed a stream.
C33_Witness ==
    /\ sp.phase = "returned" /\ sp.result = "Ok"
    /\ sp.cl["c1"].st = "removed" /\ sp.cl["c2"].st = "removed"
    /\ \E a, b \in 1..Len(sp.input) : sp.input[a].ev = "eof" /\ sp.input[b].ev = "reset"
    /\ Len(sp.fds) = 3

----------------------------------------------------------------------------
(* C34 *)

\* C34: an exec session that holds the sync pipe and has come, the
\* multiplexer returned and the runtime waited for, to the write of the exit
\* code does not stay there for ever: it goes on to the write or to an error.
C34_ExitCodeWriteNotBlocked ==
    (cfg.cmd = "exec" /\ pc = "exec_write_exit" /\ sess.sync_pipe_fd)
    ~> (pc # "exec_write_exit")

----------------------------------------------------------------------------
(* C15 *)

\* The text of a pipe after its last complete line but one: its last line.
RECURSIVE LastLine(_, _)
LastLine(text, i) ==
    IF i = 0 THEN text
    ELSE IF text[i] = "\n" THEN SubSeq(text, i + 1, Len(text))
    ELSE LastLine(text, i - 1)

\* C15: in an exec session with a sync pipe, when the runtime wrote a
\* non-empty UTF-8 text to its stderr and exited with a code, the exit-code
\* message the caller receives carries the code under the key of the API
\* version and the text as `message`, whatever the multiplexer did meanwhile.
C15_ExitMessageCarriesStderr ==
    (/\ cfg.cmd = "exec" /\ IsFd(env.sync)
     /\ pipes.stderr.utf8 /\ pipes.stderr.bytes # <<>>
     /\ \E i \in Idxs("exit_msg") : FirstErr(trace[i].script) = "none"
     /\ \A i \in Idxs("pid_msg") : FirstErr(trace[i].script) = "none")
    => LET d == DecodeLine(LastLine(pipes.sync, Len(pipes.sync) - 1)) IN
       /\ d.ok
       /\ Range(d.members) =
            {[k |-> KeyChars(DataKey(cfg.api_version, TRUE)), v |-> IntVal(sess.exit_code)],
             [k |-> KeyChars("message"), v |-> StrVal(pipes.stderr.bytes)]}

----------------------------------------------------------------------------
(* C29 *)

\* The complete lines of a text, each with its newline.
RECURSIVE C29_Lines(_, _, _)
C29_Lines(text, start, i) ==
    IF i > Len(text) THEN <<>>
    ELSE IF text[i] = "\n"
    THEN <<SubSeq(text, start, i)>> \o C29_Lines(text, i + 1, i + 1)
    ELSE C29_Lines(text, start, i + 1)

C29_IntKeys(line) ==
    {m.k : m \in {x \in Range(DecodeLine(line).members) : x.v.t = "int"}}

\* C29: every message a session has put on the sync pipe holds its integer
\* under `data` when the API version is at least 1, else under `exit_code`
\* when the session is an exec session, else under `pid`.
C29_KeyBySessionKind ==
    \A line \in Range(C29_Lines(pipes.sync, 1, 1)) :
        /\ DecodeLine(line).ok
        /\ C29_IntKeys(line) =
             {KeyChars(IF cfg.api_version >= 1 THEN "data"
                       ELSE IF cfg.cmd = "exec" THEN "exit_code" ELSE "pid")}

----------------------------------------------------------------------------
(* log_plugin.rs: resolve_plugin_path, LoadedLogPlugin::load and its Drop,   *)
(* studied on their own.  A path is a sequence of characters; a directory    *)
(* the code names by a constant is kept as one token.                        *)

MaxPathLen == 3

PathChars == {"a", "b", ":"}

DYLIB_EXT == <<"s", "o">>

DEFAULT_LOG_PLUGIN_DIRS ==
    << <<"/usr/lib/conmon-v3/log_plugins">>, <<"/usr/local/lib/conmon-v3/log_plugins">> >>

\* The directory of env::current_exe(), when the call succeeds.
ExeDirs == {[some |-> TRUE, dir |-> <<"/usr/bin">>], [some |-> FALSE, dir |-> <<>>]}

PluginNames == {<<"p">>, <<"d", "/", "p">>, <<"p", ".", "s", "o">>}

PluginPathValues ==
    {NotPresent, NotUnicode} \cup {EnvStr(c) : c \in SeqsUpTo(PathChars, MaxPathLen)}

LastIndexOf(s, ch) ==
    IF \E i \in 1..Len(s) : s[i] = ch
    THEN CHOOSE i \in 1..Len(s) : s[i] = ch /\ \A j \in (i + 1)..Len(s) : s[j] # ch
    ELSE 0

FirstIndexOf(s, ch) ==
    IF \E i \in 1..Len(s) : s[i] = ch
    THEN CHOOSE i \in 1..Len(s) : s[i] = ch /\ \A j \in 1..(i - 1) : s[j] # ch
    ELSE 0

\* Path::parent: the path without its last component; the empty path for a
\* single relative component, nothing for the empty path and for the root.
PathParent(p) ==
    LET i == LastIndexOf(p, "/") IN
    IF p = <<>> \/ p = <<"/">> THEN [some |-> FALSE, path |-> <<>>]
    ELSE IF i = 0 THEN [some |-> TRUE, path |-> <<>>]
    ELSE IF i = 1 THEN [some |-> TRUE, path |-> <<"/">>]
    ELSE [some |-> TRUE, path |-> SubSeq(p, 1, i - 1)]

\* Path::extension: what follows the last dot of the file name, unless the
\* file name has no dot or only a leading one.
PathExtension(p) ==
    LET fname == SubSeq(p, LastIndexOf(p, "/") + 1, Len(p))
        d == LastIndexOf(fname, ".")
    IN  IF d <= 1 THEN [some |-> FALSE, ext |-> <<>>]
        ELSE [some |-> TRUE, ext |-> SubSeq(fname, d + 1, Len(fname))]

IsPathLike(name_or_path) ==
    \/ PathParent(name_or_path).some /\ PathParent(name_or_path).path # <<>>
    \/ PathExtension(name_or_path).some /\ PathExtension(name_or_path).ext = DYLIB_EXT

\* str::split(':'): the pieces between the separators, empty ones included.
RECURSIVE SplitColon(_)
SplitColon(s) ==
    LET i == FirstIndexOf(s, ":") IN
    IF i = 0 THEN <<s>>
    ELSE <<SubSeq(s, 1, i - 1)>> \o SplitColon(SubSeq(s, i + 1, Len(s)))

KeepEntryAlways(entry) == TRUE

\* The filter of the CONMON_LOG_PLUGIN_PATH entries.
KeepEntry(entry) == entry # <<>>

\* PathBuf::join of a directory and a relative file name.
PathJoin(dir, file) ==
    IF dir = <<>> THEN file
    ELSE IF dir[Len(dir)] = "/" THEN dir \o file
    ELSE dir \o <<"/">> \o file

PluginCandidate(name_or_path) == <<"lib">> \o name_or_path \o <<"_log_plugin", ".">> \o DYLIB_EXT

search_dirs(exe_dir, paths) ==
    (IF exe_dir.some THEN <<exe_dir.dir>> ELSE <<>>)
    \o (IF paths.kind = "Str" THEN SelectSeq(SplitColon(paths.s), KeepEntry) ELSE <<>>)
    \o DEFAULT_LOG_PLUGIN_DIRS

PathNone == [some |-> FALSE, path |-> <<>>]

\* files: the paths that exist, all of them regular files.
resolve_plugin_path(name_or_path, exe_dir, paths, files) ==
    IF IsPathLike(name_or_path)
    THEN IF name_or_path \in files THEN [some |-> TRUE, path |-> name_or_path] ELSE PathNone
    ELSE LET dirs == search_dirs(exe_dir, paths)
             candidate == PluginCandidate(name_or_path)
             hits == {i \in 1..Len(dirs) : PathJoin(dirs[i], candidate) \in files}
         IN  IF hits = {} THEN PathNone
             ELSE [some |-> TRUE,
                   path |-> PathJoin(dirs[CHOOSE i \in hits : \A j \in hits : i <= j],
                                     candidate)]

\* The directories in which the file system of a run may hold the candidate
\* file: the executable's, two that CONMON_LOG_PLUGIN_PATH can name, the
\* working directory (the empty path) and the built-in ones.
PluginFileDirs ==
    {<<"/usr/bin">>, <<"a">>, <<"b">>, <<>>}
    \cup {DEFAULT_LOG_PLUGIN_DIRS[i] : i \in 1..Len(DEFAULT_LOG_PLUGIN_DIRS)}

PluginFsPaths(name_or_path) ==
    IF IsPathLike(name_or_path) THEN {name_or_path}
    ELSE {PathJoin(d, PluginCandidate(name_or_path)) : d \in PluginFileDirs}

\* What the plugin's conmon_log_plugin_v1_get hands back: the ABI version and
\* the struct size relative to size_of::<conmon_log_plugin_v1>().
AbiVersions == {0, 1, 2}
StructSizes == {"smaller", "equal", "larger"}
InitRcs == {0, -1}
PluginHandles == {"null", "h"}

AbiOkAlways(abi_version) == TRUE

AbiOk(abi_version) == abi_version = 1

SizeOk(struct_size) == struct_size # "smaller"

InitFailedRcOnly(rc, handle) == rc # 0

InitFailed(rc, handle) == rc # 0 \/ handle = "null"

CannotLoadErr(name_or_path, why) ==
    ConmonError(<<Lit("Cannot load Log plugin"), Lit(" "), Val(name_or_path), Lit(": "),
                  Lit(why)>>, 1)

\* One call into the dynamic loader or into the plugin.
PluginCall(op) == [op |-> op, rc |-> 0, handle |-> "none"]

InitPlugin ==
    /\ \E name \in PluginNames, exe \in ExeDirs, paths \in PluginPathValues :
       \E files \in SUBSET PluginFsPaths(name) :
          sp = [phase |-> "load", name |-> name, exe_dir |-> exe, paths |-> paths,
                files |-> files, path |-> PathNone, lib |-> "none",
                abi_version |-> 1, struct_size |-> "equal", handle |-> "none",
                calls |-> <<>>, err |-> ConmonError(<<>>, 0)]
    /\ SessIdle

PluginStep(nsp) == sp' = nsp /\ UNCHANGED sessVars

\* The library is dropped on an error return after Library::new.
PluginFail(st, err) ==
    [st EXCEPT !.phase = "failed", !.err = err,
               !.lib = IF st.lib = "open" THEN "released" ELSE st.lib,
               !.calls = IF st.lib = "open" THEN st.calls \o <<PluginCall("dlclose")>>
                         ELSE st.calls]

PluginResolve ==
    /\ sp.phase = "load"
    /\ LET r == resolve_plugin_path(sp.name, sp.exe_dir, sp.paths, sp.files) IN
       IF r.some
       THEN PluginStep([sp EXCEPT !.phase = "open", !.path = r])
       ELSE PluginStep(PluginFail(sp, CannotLoadErr(sp.name, "not found")))

PluginOpen ==
    /\ sp.phase = "open"
    /\ \E ok \in BOOLEAN :
          IF ok
          THEN PluginStep([sp EXCEPT !.phase = "symbol", !.lib = "open",
                                     !.calls = @ \o <<PluginCall("dlopen")>>])
          ELSE PluginStep(PluginFail([sp EXCEPT !.calls = @ \o <<PluginCall("dlopen")>>],
                                     ConmonError(<<Lit("dlopen")>>, 1)))

PluginGetSymbol ==
    /\ sp.phase = "symbol"
    /\ \E found \in BOOLEAN, abi \in AbiVersions, sz \in StructSizes :
          IF found
          THEN PluginStep([sp EXCEPT !.phase = "check_abi", !.abi_version = abi,
                                     !.struct_size = sz,
                                     !.calls = @ \o <<PluginCall("get")>>])
          ELSE /\ abi = 1 /\ sz = "equal"
               /\ PluginStep(PluginFail(sp, ConmonError(<<Lit("dlsym")>>, 1)))

PluginCheckAbi ==
    /\ sp.phase = "check_abi"
    /\ IF AbiOk(sp.abi_version)
       THEN PluginStep([sp EXCEPT !.phase = "check_size"])
       ELSE PluginStep(PluginFail(sp, CannotLoadErr(sp.name, "ABI version mismatch")))

PluginCheckSize ==
    /\ sp.phase = "check_size"
    /\ IF SizeOk(sp.struct_size)
       THEN PluginStep([sp EXCEPT !.phase = "init"])
       ELSE PluginStep(PluginFail(sp, CannotLoadErr(sp.name, "vtable struct too small")))

PluginInit ==
    /\ sp.phase = "init"
    /\ \E rc \in InitRcs, handle \in PluginHandles :
          LET called == [sp EXCEPT !.calls = @ \o <<[op |-> "init", rc |-> rc,
                                                      handle |-> handle]>>]
          IN  IF InitFailed(rc, handle)
              THEN PluginStep(PluginFail(called, CannotLoadErr(sp.name, "init failed")))
              ELSE PluginStep([called EXCEPT !.phase = "loaded", !.handle = handle])

\* Drop of the LoadedLogPlugin: drop() runs, then the fields are dropped.
PluginDrop ==
    /\ sp.phase = "loaded"
    /\ PluginStep([sp EXCEPT !.phase = "dropped", !.lib = "released",
                             !.calls = @ \o <<[op |-> "close", rc |-> 0,
                                               handle |-> sp.handle],
                                              PluginCall("dlclose")>>])

NextPlugin ==
    \/ PluginResolve
    \/ PluginOpen
    \/ PluginGetSymbol
    \/ PluginCheckAbi
    \/ PluginCheckSize
    \/ PluginInit
    \/ PluginDrop

SpecPlugin == InitPlugin /\ [][NextPlugin]_vars

PluginCalls(op) == {i \in 1..Len(sp.calls) : sp.calls[i].op = op}

PluginOver == sp.phase \in {"failed", "dropped"}

InitSuccesses ==
    {i \in PluginCalls("init") : sp.calls[i].rc = 0 /\ sp.calls[i].handle # "null"}

\* C16: close is called exactly when init returned success (zero, with a
\* handle), once, and before the library is released: once load has failed or
\* the loaded plugin has been dropped, there are as many close calls as init
\* calls that returned success, each close comes after its init and before
\* the dlclose, and a plugin that is still loaded has not been closed.
C16_CloseIffInitSucceeded ==
    /\ Cardinality(PluginCalls("close")) <= 1
    /\ PluginOver => Cardinality(PluginCalls("close")) = Cardinality(InitSuccesses)
    /\ sp.phase \notin {"failed", "dropped"} => PluginCalls("close") = {}
    /\ \A c \in PluginCalls("close") :
          /\ \E i \in InitSuccesses : i < c /\ sp.calls[c].handle = sp.calls[i].handle
          /\ \A d \in PluginCalls("dlclose") : c < d
          /\ PluginCalls("dlclose") # {}

C16_Witness ==
    /\ sp.phase = "dropped"
    /\ Cardinality(PluginCalls("close")) = 1
    /\ sp.lib = "released"

C16_WitnessNullHandle ==
    /\ sp.phase = "failed"
    /\ \E i \in PluginCalls("init") : sp.calls[i].rc = 0 /\ sp.calls[i].handle = "null"
    /\ PluginCalls("close") = {}

\* C17: load is staged.  An unresolved plugin fails with "Cannot load Log
\* plugin" and "not found" and no library is opened; a vtable whose
\* abi_version is not 1 or whose struct_size is too small fails with its fixed
\* message and init is never called; init is called only after the path was
\* resolved, the library opened and both validations passed.
C17_LoadIsStaged ==
    /\ (sp.phase # "load"
          /\ ~resolve_plugin_path(sp.name, sp.exe_dir, sp.paths, sp.files).some)
       => /\ sp.phase = "failed"
          /\ Contains(sp.err.msg, "Cannot load Log plugin")
          /\ Contains(sp.err.msg, "not found")
          /\ sp.calls = <<>>
          /\ sp.lib = "none"
    /\ (PluginCalls("get") # {} /\ sp.phase \notin {"check_abi", "check_size"}
          /\ (sp.abi_version # 1 \/ sp.struct_size = "smaller"))
       => /\ sp.phase = "failed"
          /\ PluginCalls("init") = {}
          /\ sp.err = ConmonError(<<Lit("Cannot load Log plugin"), Lit(" "), Val(sp.name),
                                    Lit(": "),
                                    Lit(IF sp.abi_version # 1 THEN "ABI version mismatch"
                                        ELSE "vtable struct too small")>>, 1)
    /\ PluginCalls("init") # {}
       => /\ sp.path.some /\ sp.path.path \in sp.files
          /\ \E o \in PluginCalls("dlopen"), g \in PluginCalls("get") :
                \A i \in PluginCalls("init") : o < g /\ g < i
          /\ sp.abi_version = 1
          /\ sp.struct_size # "smaller"

C17_Witness ==
    /\ sp.phase = "failed"
    /\ sp.abi_version = 1
    /\ sp.struct_size = "smaller"
    /\ PluginCalls("get") # {}

C17_WitnessNotFound ==
    /\ sp.phase = "failed"
    /\ Contains(sp.err.msg, "not found")
    /\ sp.paths.kind = "NotPresent"

\* The CONMON_LOG_PLUGIN_PATH entries, told by where they start: an entry is
\* a longest run of characters other than the colon.
EntryStarts(s) == {i \in 1..Len(s) : s[i] # ":" /\ (i = 1 \/ s[i - 1] = ":")}

EntryAt(s, i) ==
    SubSeq(s, i, CHOOSE j \in i..Len(s) :
                    /\ \A k \in i..j : s[k] # ":"
                    /\ (j = Len(s) \/ s[j + 1] = ":"))

\* The directories of the search with their rank in it.
C18_Ranked ==
    (IF sp.exe_dir.some THEN {[rank |-> 0, dir |-> sp.exe_dir.dir]} ELSE {})
    \cup (IF sp.paths.kind = "Str"
          THEN {[rank |-> i, dir |-> EntryAt(sp.paths.s, i)] : i \in EntryStarts(sp.paths.s)}
          ELSE {})
    \cup {[rank |-> Len(sp.paths.s) + 1, dir |-> <<"/usr/lib/conmon-v3/log_plugins">>],
          [rank |-> Len(sp.paths.s) + 2, dir |-> <<"/usr/local/lib/conmon-v3/log_plugins">>]}

C18_File(dir) == dir \o <<"/", "lib">> \o sp.name \o <<"_log_plugin", ".", "s", "o">>

C18_Hits == {r \in C18_Ranked : C18_File(r.dir) \in sp.files}

\* C18: for a bare name the search goes through the executable's directory,
\* then the non-empty entries of CONMON_LOG_PLUGIN_PATH in order, then the
\* built-in directories in order; the result is lib<name>_log_plugin.so in the
\* first of them that has it as a file, and nothing when none has it.
C18_SearchOrder ==
    (sp.phase # "load" /\ "/" \notin Range(sp.name) /\ "." \notin Range(sp.name))
    => IF C18_Hits = {}
       THEN ~sp.path.some /\ sp.phase = "failed"
       ELSE /\ sp.path.some
            /\ \E r \in C18_Hits :
                  /\ \A q \in C18_Hits : r.rank <= q.rank
                  /\ sp.path.path = C18_File(r.dir)

C18_Witness ==
    /\ sp.phase = "open"
    /\ sp.name = <<"p">>
    /\ sp.paths = EnvStr(<<":", "a", ":">>)
    /\ <<"lib", "p", "_log_plugin", ".", "s", "o">> \in sp.files
    /\ sp.path.path = <<"a", "/", "lib", "p", "_log_plugin", ".", "s", "o">>

----------------------------------------------------------------------------
(* unix_socket.rs: UnixSocket::listen and the Drop of a UnixSocket, studied  *)
(* on their own, one system call at a time.  The file system is what stands  *)
(* at the socket's full path and at the symlink socket_parent_dir makes.     *)

\* sockaddr_un.sun_path.len()
max_socket_path_len == 108

LongCuuid == [i \in 1..(max_socket_path_len - 4) |-> "c"]

SomePath(chars) == [some |-> TRUE, path |-> chars]

SocketPathArgs == {PathNone, SomePath(<<"a">>), SomePath(<<"/", "t", "/", "a">>)}
BundlePaths == {<<>>, <<"/", "b">>}
SocketDirPaths == {PathNone, SomePath(<<"/", "s">>)}
Cuuids == {PathNone, SomePath(<<"c">>), SomePath(LongCuuid)}

\* Path::file_name of a path that does not end in a separator or a dot.
PathFileName(p) == SubSeq(p, LastIndexOf(p, "/") + 1, Len(p))

\* socket_parent_dir: the base path before the symlink is made.
SocketBasePath(st) ==
    IF st.use_full_attach_path THEN st.bundle_path
    ELSE IF st.cuuid.some /\ st.socket_path.some
    THEN PathJoin(st.socket_path.path, st.cuuid.path)
    ELSE <<>>

\* The last byte is zeroed when the path would not leave room for the
\* terminator, and the path ends at the first zero byte.
ChopBasePath(base_path) ==
    IF Len(base_path) >= max_socket_path_len - 1
    THEN SubSeq(base_path, 1, Len(base_path) - 1)
    ELSE base_path

PathRecordedAtUnlink(step) == step \in {"unlink", "listen"}

\* The statement of listen after which self.fd and self.path are set.
PathRecordedAt(step) == step = "listen"

SocketRecord(st, step) ==
    IF PathRecordedAt(step)
    THEN [st EXCEPT !.path = SomePath(st.full_path), !.fd = (st.sock = "listening")]
    ELSE st

InitSocket ==
    /\ \E arg \in SocketPathArgs, full \in BOOLEAN, bundle \in BundlePaths,
          sdir \in SocketDirPaths, cuuid \in Cuuids, old \in BOOLEAN, link \in BOOLEAN :
          sp = [phase |-> "parent_dir", arg |-> arg, use_full_attach_path |-> full,
                bundle_path |-> bundle, socket_path |-> sdir, cuuid |-> cuuid,
                full_path |-> <<>>, dir |-> <<>>, dir_fd |-> FALSE, sock |-> "none",
                fd |-> FALSE, path |-> PathNone,
                fs |-> [file |-> IF old THEN "old" ELSE "absent",
                        symlink |-> IF link THEN "old" ELSE "absent"],
                calls |-> <<>>, err |-> ConmonError(<<>>, 0)]
    /\ SessIdle

SocketStep(nsp) == sp' = nsp /\ UNCHANGED sessVars

\* An error return of listen: its locals fd and dir_fd are dropped.
SocketFail(st, what) ==
    [st EXCEPT !.phase = "failed", !.err = IoErr(what), !.dir_fd = FALSE,
               !.sock = IF st.sock = "none" THEN "none" ELSE "closed"]

\* The full path and its directory: the parent of an argument that has one,
\* else what socket_parent_dir gives (the bundle, or a symlink to it at
\* <socket_path>/<cuuid>); without an argument, a file mkstemp creates.
SockParentDir ==
    /\ sp.phase = "parent_dir"
    /\ IF ~sp.arg.some
       THEN \E ok \in BOOLEAN :
              IF ok
              THEN SocketStep([sp EXCEPT !.phase = "unlink_old",
                                         !.full_path = <<"/", "tmp", "/", "conmon-term.XXXXXX">>,
                                         !.fs.file = "old",
                                         !.calls = @ \o <<"mkstemp">>])
              ELSE SocketStep(SocketFail(sp, "mkstemp"))
       ELSE IF PathParent(sp.arg.path).some /\ PathParent(sp.arg.path).path # <<>>
       THEN SocketStep([sp EXCEPT !.phase = "open_dir", !.full_path = sp.arg.path,
                                  !.dir = PathParent(sp.arg.path).path])
       ELSE IF SocketBasePath(sp) = <<>>
       THEN SocketStep(SocketFail(sp, "Base path for socket cannot be determined"))
       ELSE IF sp.use_full_attach_path
       THEN SocketStep([sp EXCEPT !.phase = "open_dir",
                                  !.full_path = PathJoin(SocketBasePath(sp), sp.arg.path),
                                  !.dir = SocketBasePath(sp)])
       ELSE LET new_base == ChopBasePath(SocketBasePath(sp)) IN
            \E r \in {"ok", "unlink_failed", "symlink_failed"} :
              CASE r = "ok" ->
                     SocketStep([sp EXCEPT !.phase = "open_dir",
                                           !.full_path = PathJoin(new_base, sp.arg.path),
                                           !.dir = new_base, !.fs.symlink = "new",
                                           !.calls = @ \o <<"unlink_symlink", "symlinkat">>])
                [] r = "unlink_failed" -> SocketStep(SocketFail(sp, "unlink"))
                [] r = "symlink_failed" ->
                     SocketStep(SocketFail([sp EXCEPT !.fs.symlink = "absent",
                                                     !.calls = @ \o <<"unlink_symlink">>],
                                           "symlinkat"))

\* open(dir, O_CREAT | O_CLOEXEC | O_PATH, 0o600)?
SockOpenDir ==
    /\ sp.phase = "open_dir"
    /\ \E ok \in BOOLEAN :
          IF ok THEN SocketStep([sp EXCEPT !.phase = "unlink_old", !.dir_fd = TRUE,
                                           !.calls = @ \o <<"open_dir">>])
          ELSE SocketStep(SocketFail(sp, "open"))

\* unlink(&full_path), where ENOENT is not an error.
SockUnlinkOld ==
    /\ sp.phase = "unlink_old"
    /\ \E ok \in BOOLEAN :
          IF ok THEN SocketStep(SocketRecord([sp EXCEPT !.phase = "socket",
                                                        !.fs.file = "absent",
                                                        !.calls = @ \o <<"unlink_old">>],
                                             "unlink"))
          ELSE SocketStep(SocketFail(sp, "Failed to remove old socket"))

\* socket(AddressFamily::Unix, sock_type, sock_flags, None)?
SockSocket ==
    /\ sp.phase = "socket"
    /\ \E ok \in BOOLEAN :
          IF ok THEN SocketStep(SocketRecord([sp EXCEPT !.phase = "bind", !.sock = "open",
                                                        !.calls = @ \o <<"socket">>],
                                             "socket"))
          ELSE SocketStep(SocketFail(sp, "socket"))

\* bind_relative_to_dir: the address (through the directory fd when there is
\* one), fchmod(fd, perms)? and bind(fd, &addr)?.
SockBind ==
    /\ sp.phase = "bind"
    /\ \E r \in {"ok", "addr_failed", "fchmod_failed", "bind_failed"} :
          CASE r = "ok" ->
                 SocketStep(SocketRecord([sp EXCEPT !.phase = "listen", !.sock = "bound",
                                                    !.fs.file = "socket",
                                                    !.calls = @ \o <<"fchmod", "bind">>],
                                         "bind"))
            [] r = "addr_failed" -> SocketStep(SocketFail(sp, "Failed to create UnixAddr"))
            [] r = "fchmod_failed" -> SocketStep(SocketFail(sp, "fchmod"))
            [] r = "bind_failed" ->
                 SocketStep(SocketFail([sp EXCEPT !.calls = @ \o <<"fchmod">>], "bind"))

\* listen(&fd, Backlog::MAXCONN)?; self.fd = Some(fd); self.path = Some(full_path)
SockListen ==
    /\ sp.phase = "listen"
    /\ \E ok \in BOOLEAN :
          IF ok THEN SocketStep(SocketRecord([sp EXCEPT !.phase = "listening",
                                                        !.sock = "listening",
                                                        !.dir_fd = FALSE,
                                                        !.calls = @ \o <<"listen">>],
                                             "listen"))
          ELSE SocketStep(SocketFail(sp, "listen"))

\* The UnixSocket is dropped, after listen returned either way: drop() unlinks
\* the recorded path, then the fd is closed.
SockDrop ==
    /\ sp.phase \in {"listening", "failed"}
    /\ SocketStep([sp EXCEPT !.phase = "dropped", !.path = PathNone, !.fd = FALSE,
                             !.sock = IF sp.sock = "none" THEN "none" ELSE "closed",
                             !.fs.file = IF DropUnlinks(sp.path) THEN "absent" ELSE @,
                             !.calls = IF DropUnlinks(sp.path) THEN @ \o <<"unlink">>
                                       ELSE @])

NextSocket ==
    \/ SockParentDir
    \/ SockOpenDir
    \/ SockUnlinkOld
    \/ SockSocket
    \/ SockBind
    \/ SockListen
    \/ SockDrop

SpecSocket == InitSocket /\ [][NextSocket]_vars

\* C20: the UnixSocket records a path only together with a listening fd, and
\* only after the old file was unlinked and fchmod, bind and listen succeeded,
\* in this order; what then stands at the path is the bound socket.  A listen
\* that failed leaves path and fd absent.
C20_PathOnlyWithListeningFd ==
    /\ sp.path.some <=> sp.fd
    /\ sp.path.some
       => /\ sp.sock = "listening"
          /\ sp.path.path = sp.full_path
          /\ sp.fs.file = "socket"
          /\ \E u, c, b, l \in 1..Len(sp.calls) :
                /\ sp.calls[u] = "unlink_old" /\ sp.calls[c] = "fchmod"
                /\ sp.calls[b] = "bind" /\ sp.calls[l] = "listen"
                /\ u < c /\ c < b /\ b < l
    /\ sp.phase = "failed" => ~sp.path.some /\ ~sp.fd

C20_Witness ==
    /\ sp.phase = "listening"
    /\ sp.path = SomePath(<<"/", "s", "/", "c", "/", "a">>)
    /\ sp.fd

C20_WitnessFailedListen ==
    /\ sp.phase = "failed"
    /\ sp.err = IoErr("listen")
    /\ sp.fs.file = "socket"
    /\ ~sp.path.some

----------------------------------------------------------------------------
(* C19 *)

C19_WitnessSuccess ==
    /\ pc = "exited"
    /\ Has("listen")
    /\ Has("unlink_attach")
    /\ sess.result.st = "ok"
    /\ Forked

----------------------------------------------------------------------------
(* C21 *)

\* C21: accept is never fatal.  It returns no client on EWOULDBLOCK, a
\* RemoteSocket of the listening socket's type on success, and no client,
\* after a warning, on any other error of accept(2); the multiplexer goes on
\* with the next entry of its walk and never returns because of an accept.
C21_AcceptNeverFatal ==
    /\ sp.cause # "accept"
    /\ sp.last_accept.r # "none" =>
        /\ sp.last_accept.ret.res = "Ok"
        /\ sp.last_accept.r = "ok" =>
              sp.last_accept.ret.some /\ sp.last_accept.ret.socket_type = "Console"
        /\ sp.last_accept.r = "EWOULDBLOCK" =>
              ~sp.last_accept.ret.some /\ ~sp.last_accept.ret.warned
        /\ sp.last_accept.r \notin {"ok", "EWOULDBLOCK"} =>
              ~sp.last_accept.ret.some /\ sp.last_accept.ret.warned
    /\ (sp.phase = "scan" /\ sp.i > 1 /\ sp.i - 1 <= Len(sp.fds)
          /\ sp.fds[sp.i - 1].fd = "attach" /\ "IN" \in sp.fds[sp.i - 1].revents)
       => sp.last_accept.r # "none"

\* An accept(2) failed with an error other than EWOULDBLOCK and the multiplexer,
\* which serves an accepted client, is back in poll.
C21_Witness ==
    /\ sp.last_accept.r = "ECONNABORTED"
    /\ sp.phase = "poll"
    /\ \E c \in Clients : sp.cl[c].st = "accepted"

----------------------------------------------------------------------------
(* process.rs: RuntimeProcess::spawn on its own, one system call at a time,  *)
(* with the three processes it involves: the caller, its forked child that   *)
(* goes on as the supervisor, and the runtime the supervisor spawns.         *)

\* block_signals: the signals added to the mask.
BlockedSignals == {"SIGTERM", "SIGQUIT", "SIGINT", "SIGHUP"}

\* Signal masks the caller may start with.
SpawnMasks == {{}, {"SIGUSR1"}, {"SIGTERM"}}

\* The start pipe is read only once the runtime has been spawned.
SpawnAfterStartPipeLast(step) ==
    CASE step = "args" -> "devnull"
      [] step = "devnull" -> "fork"
      [] step = "fork" -> "block_signals"
      [] step = "block_signals" -> "runtime_fork"
      [] step = "runtime_fork" -> "setsid"
      [] step = "setsid" -> "restore_mask"
      [] step = "restore_mask" -> "umask"
      [] step = "umask" -> "exec"
      [] step = "exec" -> "start_pipe"
      [] step = "start_pipe" -> "record_pid"

\* The statement of spawn, or the step of Command::spawn and of its pre_exec
\* hook, that follows each step.
SpawnAfter(step) ==
    CASE step = "args" -> "devnull"
      [] step = "devnull" -> "fork"
      [] step = "fork" -> "start_pipe"
      [] step = "start_pipe" -> "block_signals"
      [] step = "block_signals" -> "runtime_fork"
      [] step = "runtime_fork" -> "setsid"
      [] step = "setsid" -> "restore_mask"
      [] step = "restore_mask" -> "umask"
      [] step = "umask" -> "exec"
      [] step = "exec" -> "record_pid"

NoRuntime == [st |-> "none", own_session |-> FALSE, mask |-> {}, umask |-> "inherited"]

\* waitpid calls one wait may repeat
MaxWaitRetries == 2

\* What waitpid(pid, None) returns: a status of the process or an errno.
WaitStatuses ==
    {[kind |-> "Exited", code |-> c, sig |-> ""] : c \in ExitCodes}
    \cup {[kind |-> "Signaled", code |-> 0, sig |-> g] : g \in {"SIGKILL", "SIGSEGV"}}
    \cup {[kind |-> k, code |-> 0, sig |-> ""] :
             k \in {"StillAlive", "Stopped", "Continued", "EINTR", "ECHILD"}}

WaitRetriesNotEintr(status) == status.kind \in {"StillAlive", "Stopped", "Continued"}

\* The arms of the match that continue the loop.
WaitRetries(status) == status.kind \in {"StillAlive", "Stopped", "Continued", "EINTR"}

NoWait == [calls |-> 0, last |-> [kind |-> "none", code |-> 0, sig |-> ""], kills |-> <<>>,
           result |-> Running]

InitSpawn ==
    /\ \E empty \in BOOLEAN, start \in BOOLEAN, mask \in SpawnMasks :
          sp = [phase |-> "args", args_empty |-> empty, start_pipe_fd |-> start,
                had_start_pipe |-> start, stdio |-> "inherited",
                caller_exit |-> -1, child |-> FALSE, mask |-> mask, oldmask |-> {},
                runtime |-> NoRuntime, pid |-> -1, steps |-> <<>>,
                result |-> Running, wait |-> NoWait, exit_code |-> -1]
    /\ SessIdle

SpawnGo(st, step, done) ==
    sp' = [st EXCEPT !.phase = SpawnAfter(step), !.steps = @ \o done]
    /\ UNCHANGED sessVars

\* An error return of spawn: start_pipe_fd, a parameter, is dropped.
SpawnErr(st, what) ==
    sp' = [st EXCEPT !.phase = "returned", !.result = Err(IoErr(what)),
                     !.start_pipe_fd = FALSE]
    /\ UNCHANGED sessVars

\* spawn going on to the redirection whatever args holds.
SpawnArgsUnchecked ==
    /\ sp.phase = "args"
    /\ SpawnGo(sp, "args", <<>>)

\* if args.is_empty() { return Err(...) }
SpawnArgs ==
    /\ sp.phase = "args"
    /\ IF sp.args_empty THEN SpawnErr(sp, "Failed to execute runtime binary: empty args")
       ELSE SpawnGo(sp, "args", <<>>)

\* redirect_self_to_devnull()?: stdin first, then stdout and stderr.
SpawnDevnull ==
    /\ sp.phase = "devnull"
    /\ \E r \in {"ok", "stdin_failed", "stdout_failed"} :
        CASE r = "ok" -> SpawnGo([sp EXCEPT !.stdio = "devnull"], "devnull", <<"devnull">>)
          [] r = "stdin_failed" -> SpawnErr(sp, "Errno error")
          [] r = "stdout_failed" -> SpawnErr([sp EXCEPT !.stdio = "stdin_devnull"],
                                             "Errno error")

\* fork(): the parent exits with 0 at once, the child goes on.
SpawnFirstFork ==
    /\ sp.phase = "fork"
    /\ \E ok \in BOOLEAN :
        IF ok THEN SpawnGo([sp EXCEPT !.child = TRUE, !.caller_exit = 0], "fork",
                           <<"fork", "parent_exit">>)
        ELSE SpawnErr(sp, "Failed to fork")

\* if let Some(fd) = start_pipe_fd.take() { read_pipe(&fd, &mut buf)?; }
SpawnStartPipe ==
    /\ sp.phase = "start_pipe"
    /\ IF ~sp.start_pipe_fd THEN SpawnGo(sp, "start_pipe", <<>>)
       ELSE \E ok \in BOOLEAN :
        IF ok THEN SpawnGo([sp EXCEPT !.start_pipe_fd = FALSE], "start_pipe",
                           <<"start_read">>)
        ELSE SpawnErr(sp, "read() failed while reading pipe")

\* let oldmask = block_signals()?
SpawnBlockSignals ==
    /\ sp.phase = "block_signals"
    /\ \E ok \in BOOLEAN :
        IF ok THEN SpawnGo([sp EXCEPT !.oldmask = sp.mask,
                                      !.mask = @ \cup BlockedSignals],
                           "block_signals", <<"block_signals">>)
        ELSE SpawnErr(sp, "Failed to block signals")

\* cmd.spawn(): the fork. The new process has the supervisor's mask, session
\* and umask.
SpawnRuntimeFork ==
    /\ sp.phase = "runtime_fork"
    /\ \E ok \in BOOLEAN :
        IF ok THEN SpawnGo([sp EXCEPT !.runtime = [NoRuntime EXCEPT !.st = "forked",
                                                                   !.mask = sp.mask]],
                           "runtime_fork", <<"runtime_fork">>)
        ELSE SpawnErr(sp, "Failed to spawn")

\* child_setup in the new process: setsid().map_err(io_err)?
SpawnSetsid ==
    /\ sp.phase = "setsid"
    /\ \E ok \in BOOLEAN :
        IF ok THEN SpawnGo([sp EXCEPT !.runtime.own_session = TRUE], "setsid", <<"setsid">>)
        ELSE SpawnErr([sp EXCEPT !.runtime.st = "failed"], "Failed to spawn")

\* child_setup: pthread_sigmask(SIG_SETMASK, Some(oldmask), None)?
SpawnRestoreMask ==
    /\ sp.phase = "restore_mask"
    /\ \E ok \in BOOLEAN :
        IF ok THEN SpawnGo([sp EXCEPT !.runtime.mask = sp.oldmask], "restore_mask",
                           <<"restore_mask">>)
        ELSE SpawnErr([sp EXCEPT !.runtime.st = "failed"], "Failed to spawn")

\* child_setup: umask(0o022)
SpawnUmask ==
    /\ sp.phase = "umask"
    /\ SpawnGo([sp EXCEPT !.runtime.umask = "022"], "umask", <<"umask">>)

\* cmd.spawn(): the exec of the runtime binary, whose failure the spawning
\* process is told.
SpawnRuntimeExec ==
    /\ sp.phase = "exec"
    /\ \E ok \in BOOLEAN :
        IF ok THEN SpawnGo([sp EXCEPT !.runtime.st = "running"], "exec", <<"exec">>)
        ELSE SpawnErr([sp EXCEPT !.runtime.st = "failed"], "Failed to spawn")

\* self.pid = child.id() as i32; Ok(self.pid)
SpawnRecordPid ==
    /\ sp.phase = "record_pid"
    /\ sp' = [sp EXCEPT !.phase = "returned", !.pid = RuntimePid,
                        !.steps = @ \o <<"record_pid">>, !.result = Ok(RuntimePid)]
    /\ UNCHANGED sessVars

SessionWaitAnyResult(st) == [st EXCEPT !.exit_code = st.wait.result.code]

\* RuntimeSession::wait: self.exit_code = self.process.wait()?; the
\* assignment is made only with the Ok value.
SessionWait(st) ==
    [st EXCEPT !.exit_code = IF st.wait.result.st = "ok" THEN st.wait.result.code ELSE @]

\* RuntimeSession::wait over RuntimeProcess::wait, one waitpid at a time, on
\* the PID spawn recorded.
ProcessWait ==
    /\ sp.phase \in {"returned", "wait"} /\ sp.pid # -1
    /\ sp.wait.result.st = "running"
    /\ \E status \in WaitStatuses, kill_ok \in BOOLEAN :
        LET w == [sp.wait EXCEPT !.calls = @ + 1, !.last = status] IN
        /\ WaitRetries(status) => sp.wait.calls + 1 < MaxWaitRetries /\ kill_ok
        /\ status.kind \in {"Exited", "Signaled"} => kill_ok
        /\ sp' = SessionWait(
                   CASE status.kind = "Exited" ->
                        [sp EXCEPT !.phase = "waited", !.runtime.st = "exited",
                                   !.wait = [w EXCEPT !.result = Ok(status.code)]]
                   [] status.kind = "Signaled" ->
                        [sp EXCEPT !.phase = "waited", !.runtime.st = "killed",
                                   !.wait = [w EXCEPT !.result =
                                       Err(ConmonError(
                                           <<Lit("Runtime process exited due to signal"),
                                             Lit(": "), Lit(status.sig)>>, 1))]]
                   [] WaitRetries(status) -> [sp EXCEPT !.phase = "wait", !.wait = w]
                   [] OTHER ->
                        [sp EXCEPT !.phase = "waited",
                                   !.runtime.st = IF kill_ok THEN "killed" ELSE @,
                                   !.wait = [w EXCEPT
                                       !.kills = @ \o <<[pid |-> sp.pid, sig |-> "SIGKILL"]>>,
                                       !.result = Err(ConmonError(
                                           <<Lit("Failed to wait for runtime process to exit"),
                                             Lit(": "), Lit(status.kind)>>, 1))]])
        /\ UNCHANGED sessVars

NextSpawn ==
    \/ ProcessWait
    \/ SpawnArgs
    \/ SpawnDevnull
    \/ SpawnFirstFork
    \/ SpawnStartPipe
    \/ SpawnBlockSignals
    \/ SpawnRuntimeFork
    \/ SpawnSetsid
    \/ SpawnRestoreMask
    \/ SpawnUmask
    \/ SpawnRuntimeExec
    \/ SpawnRecordPid

SpecSpawn == InitSpawn /\ [][NextSpawn]_vars

SpawnDid(step) == \E i \in 1..Len(sp.steps) : sp.steps[i] = step

\* C22: the steps of spawn come in one order.  The first fork is made with
\* the process's stdio on /dev/null; the start pipe is read by the child, after
\* the parent exited with 0; the signals are blocked, with the old mask kept,
\* after the start pipe was read; the runtime is forked with the signals
\* blocked and runs setsid, restores the old mask and sets umask 022, in this
\* order, before it executes the runtime binary; the runtime PID is recorded
\* after all of this.
C22_SpawnOrder ==
    /\ sp.child => sp.stdio = "devnull" /\ sp.caller_exit = 0
    /\ SpawnDid("start_read") => sp.child
    /\ SpawnDid("block_signals")
       => /\ sp.child
          /\ ~sp.start_pipe_fd
          /\ sp.had_start_pipe => SpawnDid("start_read")
          /\ BlockedSignals \subseteq sp.mask
    /\ sp.runtime.st # "none"
       => /\ SpawnDid("block_signals")
          /\ sp.had_start_pipe => SpawnDid("start_read")
    /\ sp.runtime.st = "forked" /\ ~sp.runtime.own_session
       => BlockedSignals \subseteq sp.runtime.mask /\ sp.runtime.umask = "inherited"
    /\ SpawnDid("restore_mask") => sp.runtime.own_session /\ sp.runtime.mask = sp.oldmask
    /\ sp.runtime.umask = "022" => SpawnDid("restore_mask")
    /\ sp.runtime.st \notin {"none", "forked", "failed"}
       => /\ sp.runtime.own_session
          /\ sp.runtime.mask = sp.oldmask
          /\ sp.runtime.umask = "022"
    /\ sp.pid # -1
       => /\ sp.runtime.st \notin {"none", "forked", "failed"}
          /\ BlockedSignals \subseteq sp.mask
          /\ sp.steps = <<"devnull", "fork", "parent_exit">>
                        \o (IF sp.had_start_pipe THEN <<"start_read">> ELSE <<>>)
                        \o <<"block_signals", "runtime_fork", "setsid", "restore_mask",
                             "umask", "exec", "record_pid">>

C22_Witness ==
    /\ sp.phase = "returned"
    /\ sp.pid = RuntimePid
    /\ sp.had_start_pipe
    /\ sp.oldmask = {"SIGUSR1"}

----------------------------------------------------------------------------
(* C23 *)


\* C38: spawn with an empty argv returns its error ahead of every side effect:
\* stdio is not redirected to /dev/null, nothing is forked, the start pipe is
\* not read, the signal mask is not changed and the recorded pid stays -1.
C38_EmptyArgvNoSideEffect ==
    [][sp.args_empty
       => /\ sp'.result \in {Running,
                              Err(IoErr("Failed to execute runtime binary: empty args"))}
          /\ (sp.phase = "args" => sp'.phase = "returned" /\ sp'.result.st = "err")
          /\ sp'.stdio = "inherited"
          /\ sp'.steps = <<>>
          /\ ~sp'.child /\ sp'.caller_exit = -1
          /\ sp'.runtime = NoRuntime
          /\ sp'.mask = sp.mask /\ sp'.oldmask = {}
          /\ sp'.pid = -1]_vars

C38_Witness ==
    /\ sp.phase = "returned"
    /\ sp.args_empty /\ sp.had_start_pipe
    /\ sp.result = Err(IoErr("Failed to execute runtime binary: empty args"))
    /\ sp.pid = -1
    /\ sp.steps = <<>>

\* C23: wait returns only once waitpid reported the end of the runtime: the
\* exit code after a normal exit, an error naming the signal after a death by
\* signal.  EINTR and the statuses of a process that lives on make it call
\* waitpid again.  Any other error of waitpid makes it send SIGKILL to the
\* runtime PID, whatever comes of that, and return an error; it sends no
\* signal otherwise.
C23_WaitOutcomes ==
    /\ sp.wait.result.st = "ok"
       => /\ sp.wait.last.kind = "Exited"
          /\ sp.wait.result.code = sp.wait.last.code
          /\ sp.runtime.st = "exited"
    /\ sp.wait.last.kind = "Exited" => sp.wait.result = Ok(sp.wait.last.code)
    /\ sp.wait.last.kind = "Signaled"
       => /\ sp.wait.result.st = "err"
          /\ Contains(sp.wait.result.err.msg, "Runtime process exited due to signal")
          /\ Contains(sp.wait.result.err.msg, sp.wait.last.sig)
    /\ sp.wait.last.kind \in {"EINTR", "StillAlive", "Stopped", "Continued"}
       => sp.wait.result.st = "running" /\ sp.phase = "wait"
    /\ sp.wait.last.kind = "ECHILD"
       => /\ sp.wait.result.st = "err"
          /\ sp.wait.kills = <<[pid |-> sp.pid, sig |-> "SIGKILL"]>>
    /\ sp.wait.last.kind # "ECHILD" => sp.wait.kills = <<>>
    /\ sp.wait.result.st = "err" => sp.wait.result.err.code = 1

\* waitpid was interrupted, then failed, and the SIGKILL did not get through.
C23_Witness ==
    /\ sp.wait.calls = 2
    /\ sp.wait.last.kind = "ECHILD"
    /\ sp.runtime.st = "running"
    /\ sp.wait.result.st = "err"

C23_WitnessRetryThenExit ==
    /\ sp.wait.calls = 2
    /\ sp.wait.result = Ok(7)

----------------------------------------------------------------------------
(* C27 *)

\* C27: the exit code the session records is -1 for as long as no wait has
\* returned Ok, it is the exit code waitpid reported once a wait has returned
\* Ok, and it is still -1 after a wait that returned an error.
C27_ExitCodeRecorded ==
    /\ sp.wait.last.kind \in {"none", "StillAlive", "Stopped", "Continued", "EINTR"}
       => sp.exit_code = -1
    /\ sp.wait.last.kind = "Exited"
       => sp.exit_code = sp.wait.last.code /\ sp.wait.result.st = "ok"
    /\ sp.wait.last.kind \in {"Signaled", "ECHILD"}
       => sp.exit_code = -1 /\ sp.wait.result.st = "err"

C27_Witness ==
    /\ sp.wait.calls = 2
    /\ sp.wait.last = [kind |-> "Exited", code |-> 255, sig |-> ""]
    /\ sp.exit_code = 255

C27_WitnessSignaled ==
    /\ sp.wait.last.kind = "Signaled"
    /\ sp.wait.result.st = "err"
    /\ sp.exit_code = -1

----------------------------------------------------------------------------
(* runtime/args.rs: generate_runtime_args, with the generators of the        *)
(* commands (exec.rs, create.rs, restore.rs) and the failing ones of its     *)
(* tests.  An argument is one string.                                        *)

ArgsGenerators ==
    {[kind |-> k, systemd_cgroup |-> c] :
        k \in {"exec", "create", "restore", "FailGlobal", "FailSub"}, c \in BOOLEAN}

ArgsConfigs ==
    [runtime : {"./runtime"}, cid : {"abc123"},
     runtime_args : {<<>>, <<"--ra">>, <<"--root", "/var/lib/runc">>},
     runtime_opts : {<<>>, <<"--ro">>, <<"--optA", "x">>},
     no_pivot : BOOLEAN, no_new_keyring : BOOLEAN]

\* RuntimeArgsGenerator::add_global_args: what it appends, or its error.
add_global_args(gen) ==
    CASE gen.kind = "FailGlobal" ->
            [ok |-> FALSE, args |-> <<>>, err |-> IoErr("global failure")]
      [] gen.kind \in {"create", "restore"} ->
            [ok |-> TRUE, args |-> IF gen.systemd_cgroup THEN <<"--systemd-cgroup">> ELSE <<>>,
             err |-> NoError]
      [] OTHER -> [ok |-> TRUE, args |-> <<>>, err |-> NoError]

\* RuntimeArgsGenerator::add_subcommand_args.
add_subcommand_args(gen) ==
    CASE gen.kind = "FailSub" ->
            [ok |-> FALSE, args |-> <<>>, err |-> IoErr("subcommand failure")]
      [] gen.kind = "FailGlobal" ->
            [ok |-> FALSE, args |-> <<>>, err |-> IoErr("unreachable")]
      [] gen.kind = "exec" ->
            [ok |-> TRUE, err |-> NoError,
             args |-> <<"exec", "--pid-file", "/tmp/pidfile", "--process",
                        "/tmp/process.json", "--detach">>]
      [] OTHER ->
            [ok |-> TRUE, err |-> NoError,
             args |-> <<gen.kind, "--bundle", "/bundle", "--pid-file", "/tmp/pidfile">>]

GenericArgsKeyringFirst(o) ==
    (IF o.no_new_keyring THEN <<"--no-new-keyring">> ELSE <<>>)
    \o (IF o.no_pivot THEN <<"--no-pivot">> ELSE <<>>)

\* if o.no_pivot { push } if o.no_new_keyring { push }
GenericArgs(o) ==
    (IF o.no_pivot THEN <<"--no-pivot">> ELSE <<>>)
    \o (IF o.no_new_keyring THEN <<"--no-new-keyring">> ELSE <<>>)

\* The result, the argv when there is one, and the steps that ran.
generate_runtime_args(o, gen) ==
    LET g == add_global_args(gen)
        sc == add_subcommand_args(gen)
        argv1 == <<o.runtime>>
        argv2 == argv1 \o g.args \o o.runtime_args
        argv3 == argv2 \o sc.args \o GenericArgs(o) \o o.runtime_opts \o <<o.cid>>
    IN  IF ~g.ok
        THEN [res |-> Err(g.err), some |-> FALSE, argv |-> <<>>,
              ran |-> <<"runtime", "global">>]
        ELSE IF ~sc.ok
        THEN [res |-> Err(sc.err), some |-> FALSE, argv |-> <<>>,
              ran |-> <<"runtime", "global", "runtime_args", "subcommand">>]
        ELSE [res |-> Ok(0), some |-> TRUE, argv |-> argv3,
              ran |-> <<"runtime", "global", "runtime_args", "subcommand", "generic",
                        "runtime_opts", "cid">>]

InitArgs ==
    /\ \E o \in ArgsConfigs, gen \in ArgsGenerators :
          sp = [phase |-> "call", o |-> o, gen |-> gen,
                ret |-> [res |-> Running, some |-> FALSE, argv |-> <<>>, ran |-> <<>>]]
    /\ SessIdle

CallGenerateRuntimeArgs ==
    /\ sp.phase = "call"
    /\ sp' = [sp EXCEPT !.phase = "returned", !.ret = generate_runtime_args(sp.o, sp.gen)]
    /\ UNCHANGED sessVars

NextArgs == CallGenerateRuntimeArgs

SpecArgs == InitArgs /\ [][NextArgs]_vars

\* What the claim gives as the argv of a configuration and a generator that
\* does not fail: each part is told from the configuration, not from the call.
C24_Globals == IF sp.gen.kind \in {"create", "restore"} /\ sp.gen.systemd_cgroup
               THEN <<"--systemd-cgroup">> ELSE <<>>

C24_Subcommand ==
    IF sp.gen.kind = "exec"
    THEN <<"exec", "--pid-file", "/tmp/pidfile", "--process", "/tmp/process.json", "--detach">>
    ELSE <<sp.gen.kind, "--bundle", "/bundle", "--pid-file", "/tmp/pidfile">>

\* C24: the argv is the runtime binary, the global flags, the caller's
\* runtime-args, the subcommand with its arguments, --no-pivot if asked for,
\* --no-new-keyring if asked for, the caller's runtime-opts and the container
\* id, in this order and nothing else; when a step of the generator fails its
\* error is returned, no later step runs and there is no argv.
C24_ArgvOrder ==
    sp.phase = "returned" =>
        /\ sp.gen.kind \in {"exec", "create", "restore"}
           => /\ sp.ret.res.st = "ok" /\ sp.ret.some
              /\ sp.ret.argv =
                    <<"./runtime">> \o C24_Globals \o sp.o.runtime_args \o C24_Subcommand
                    \o (IF sp.o.no_pivot THEN <<"--no-pivot">> ELSE <<>>)
                    \o (IF sp.o.no_new_keyring THEN <<"--no-new-keyring">> ELSE <<>>)
                    \o sp.o.runtime_opts \o <<"abc123">>
        /\ sp.gen.kind = "FailGlobal"
           => /\ sp.ret.res = Err(IoErr("global failure")) /\ ~sp.ret.some
              /\ \A i \in 1..Len(sp.ret.ran) : sp.ret.ran[i] \in {"runtime", "global"}
        /\ sp.gen.kind = "FailSub"
           => /\ sp.ret.res = Err(IoErr("subcommand failure")) /\ ~sp.ret.some
              /\ \A i \in 1..Len(sp.ret.ran) :
                    sp.ret.ran[i] \notin {"generic", "runtime_opts", "cid"}

C24_Witness ==
    /\ sp.phase = "returned"
    /\ sp.ret.argv = <<"./runtime", "--systemd-cgroup", "--root", "/var/lib/runc", "create",
                       "--bundle", "/bundle", "--pid-file", "/tmp/pidfile", "--no-pivot",
                       "--no-new-keyring", "--optA", "x", "abc123">>

----------------------------------------------------------------------------
(* parent_pipe.rs: get_pipe_fd_from_env on its own, for the values a pipe    *)
(* variable may have and the file descriptors the process has open.          *)

\* longest value drawn character by character
MaxEnvLen == 2

EnvFdChars == {"7", "-", "+", "x"}

EnvFdValues ==
    {NotPresent, NotUnicode}
    \cup {EnvStr(c) : c \in SeqsUpTo(EnvFdChars, MaxEnvLen)}
    \cup {EnvStr(IntToStr(I32Max)),
          EnvStr(<<"2", "1", "4", "7", "4", "8", "3", "6", "4", "8">>),
          EnvStr(<<"-", "2", "1", "4", "7", "4", "8", "3", "6", "4", "8">>)}

\* The descriptors that may be open when the variable is read.
EnvOpenFds == {7, 77, I32Max}

InitEnv ==
    /\ \E value \in EnvFdValues, open \in SUBSET EnvOpenFds :
          sp = [phase |-> "call", envname |-> "_OCI_SYNCPIPE", value |-> value,
                open |-> open, ret |-> [EnvFdNone EXCEPT !.res = "none"]]
    /\ SessIdle

\* fcntl(F_SETFD) succeeds on an open descriptor and fails with EBADF on any
\* other number.
CallGetPipeFdFromEnv ==
    /\ sp.phase = "call"
    /\ sp' = [sp EXCEPT !.phase = "returned",
                        !.ret = get_pipe_fd_from_env(sp.envname, sp.value,
                                                     ParseI32(sp.value.s).n \in sp.open)]
    /\ UNCHANGED sessVars

NextEnv == CallGetPipeFdFromEnv

SpecEnv == InitEnv /\ [][NextEnv]_vars

\* The value is the decimal text of a signed 32-bit integer, with or without
\* a plus sign.
C25_Text(n) ==
    IF n = (0 - I32Max) - 1
    THEN {<<"-", "2", "1", "4", "7", "4", "8", "3", "6", "4", "8">>}
    ELSE {IntToStr(n)} \cup (IF n >= 0 THEN {<<"+">> \o IntToStr(n)} ELSE {})

C25_Integers == ((-1000)..1000) \cup {I32Max, (0 - I32Max) - 1}

C25_IsInteger == sp.value.kind = "Str" /\ \E n \in C25_Integers : sp.value.s \in C25_Text(n)

C25_IntegerValue == CHOOSE n \in C25_Integers : sp.value.s \in C25_Text(n)

C25_WitnessNotOpen ==
    /\ sp.phase = "returned"
    /\ sp.value = EnvStr(<<"7", "7">>)
    /\ sp.open = {7}
    /\ sp.ret.res = "Err"

\* ---------------------------------------------------------------------------
\* Command selection: determine_cmd on the parsed options.
\* ---------------------------------------------------------------------------

\* Opts as determine_cmd reads them: api_version is an Option<i32>, runtime
\* is absent, a file without an executable bit, or an executable file.
CliApiVersions == {[some |-> FALSE, n |-> 0]} \cup {[some |-> TRUE, n |-> n] : n \in -1..2}

CliOpts ==
    [api_version : CliApiVersions, version_flag : BOOLEAN, cid : BOOLEAN,
     runtime : {"none", "file", "exec"}, restore : BOOLEAN, exec : BOOLEAN,
     attach : BOOLEAN, cuuid : BOOLEAN, exec_process_spec : BOOLEAN]

CliErr(msg) == [res |-> "Err", err |-> ConmonError(msg, 1), cmd |-> "none",
                api_version |-> 0, attach |-> FALSE]

CliOk(cmd, api, attach) == [res |-> "Ok", err |-> NoError, cmd |-> cmd,
                            api_version |-> api, attach |-> attach]

\* The two checks on attach, in the order of the code. The empty message means that
\* neither check rejects.
AttachChecksExecOnly(o, api_version) ==
    IF ~o.exec /\ o.attach
    THEN <<Lit("Attach can only be specified with exec")>>
    ELSE <<>>

AttachChecks(o, api_version) ==
    IF ~o.exec /\ o.attach
    THEN <<Lit("Attach can only be specified with exec")>>
    ELSE IF api_version < 1 /\ o.attach
    THEN <<Lit("Attach can only be specified for a "), Lit("non-legacy exec session")>>
    ELSE <<>>

determine_cmd(o) ==
    LET api_version == IF o.api_version.some THEN o.api_version.n ELSE 0 IN
    IF o.version_flag THEN CliOk("version", 0, FALSE)
    ELSE IF ~o.cid THEN CliErr(<<Lit("Container ID not provided. Use --cid")>>)
    ELSE IF o.runtime = "none"
    THEN CliErr(<<Lit("Runtime path not provided. Use --runtime")>>)
    ELSE IF o.restore /\ o.exec
    THEN CliErr(<<Lit("Cannot use 'exec' and 'restore' at the same time")>>)
    ELSE IF AttachChecks(o, api_version) # <<>> THEN CliErr(AttachChecks(o, api_version))
    ELSE IF ~o.cuuid /\ (~o.exec \/ api_version >= 1)
    THEN CliErr(<<Lit("Container UUID not provided. Use --cuuid")>>)
    ELSE IF o.runtime # "exec"
    THEN CliErr(<<Lit("Runtime path "), Val(<<"r">>), Lit(" is not valid")>>)
    ELSE IF o.restore THEN CliOk("restore", api_version, FALSE)
    ELSE IF o.exec
    THEN IF ~o.exec_process_spec
         THEN CliErr(<<Lit("Exec process spec path not provided. Use --exec-process-spec")>>)
         ELSE CliOk("exec", api_version, o.attach)
    ELSE CliOk("create", api_version, FALSE)

InitCli ==
    /\ \E o \in CliOpts :
          sp = [phase |-> "call", o |-> o, ret |-> CliErr(<<>>)]
    /\ SessIdle

CallDetermineCmd ==
    /\ sp.phase = "call"
    /\ sp' = [sp EXCEPT !.phase = "returned", !.ret = determine_cmd(sp.o)]
    /\ UNCHANGED sessVars

NextCli == CallDetermineCmd

SpecCli == InitCli /\ [][NextCli]_vars

\* The options pass every check that determine_cmd makes before it looks at
\* attach: no --version, a container id, a runtime path, not exec with restore.
C26_ReachesAttachChecks ==
    /\ ~sp.o.version_flag /\ sp.o.cid /\ sp.o.runtime # "none"
    /\ ~(sp.o.restore /\ sp.o.exec)

C26_RequestedApi == IF sp.o.api_version.some THEN sp.o.api_version.n ELSE 0

\* C26: options with attach and without exec, or with attach and an API
\* version below 1, never select a command that runs a session, and when
\* determine_cmd gets as far as its checks on attach the error is "Attach can
\* only be specified with exec" for the first and "non-legacy exec session"
\* for the second; every Exec configuration selected with attach set has an
\* API version of at least 1.
C26_AttachOnlyWithExecApi1 ==
    sp.phase = "returned" =>
        /\ (sp.o.attach /\ (~sp.o.exec \/ C26_RequestedApi < 1))
           => sp.ret.cmd \notin {"create", "restore", "exec"}
        /\ (sp.o.attach /\ ~sp.o.exec /\ C26_ReachesAttachChecks)
           => /\ sp.ret.res = "Err" /\ sp.ret.err.code = 1
              /\ Contains(sp.ret.err.msg, "Attach can only be specified with exec")
        /\ (sp.o.attach /\ sp.o.exec /\ C26_RequestedApi < 1 /\ C26_ReachesAttachChecks)
           => /\ sp.ret.res = "Err" /\ sp.ret.err.code = 1
              /\ Contains(sp.ret.err.msg, "non-legacy exec session")
        /\ (sp.ret.res = "Ok" /\ sp.ret.cmd = "exec" /\ sp.ret.attach)
           => sp.ret.api_version >= 1 /\ C26_RequestedApi >= 1

C26_Witness ==
    /\ sp.phase = "returned"
    /\ sp.o.attach /\ sp.o.exec /\ sp.o.api_version = [some |-> TRUE, n |-> 0]
    /\ sp.o.cuuid /\ sp.o.runtime = "exec"
    /\ Contains(sp.ret.err.msg, "non-legacy exec session")

C26_WitnessExecAttach ==
    /\ sp.phase = "returned"
    /\ sp.ret.res = "Ok" /\ sp.ret.cmd = "exec" /\ sp.ret.attach
    /\ sp.ret.api_version = 1

----------------------------------------------------------------------------
(* The end of a session: what is released, and in which order, from the      *)
(* return of the event loop to the return of run_conmon.  Exec::exec owns a  *)
(* RuntimeSession; Create::exec waits for the runtime before its event loop  *)
(* and has neither clients nor an attach socket.  run_conmon owns the log    *)
(* plugin, which outlives both.                                              *)

\* clients still connected when handle_stdio returns
MaxDropClients == 2

RECURSIVE DropRepeat(_, _)
DropRepeat(what, n) == IF n = 0 THEN <<>> ELSE <<what>> \o DropRepeat(what, n - 1)

\* The return of handle_stdio: its locals go in reverse order of declaration
\* (fds borrows, remote_sockets owns the client fds), then its parameters, of
\* which workerfd_stdin is owned.
HandleStdioDrop(clients, stdin) ==
    DropRepeat("client_fd", clients) \o (IF stdin THEN <<"worker_stdin">> ELSE <<>>)

\* The fields of RuntimeSession go in the order of their declaration; process
\* holds a PID and exit_code an integer, so their going releases nothing.
RuntimeSessionDrop(st) ==
    (IF st.sync_pipe_fd THEN <<"sync_pipe_fd">> ELSE <<>>)
    \o (IF st.workerfd_stdin THEN <<"worker_stdin">> ELSE <<>>)
    \o (IF st.mainfds THEN <<"mainfd_stdout", "mainfd_stderr">> ELSE <<>>)
    \o (IF st.attach_socket THEN <<"attach_socket">> ELSE <<>>)

LoadedLogPluginDropLibraryFirst(loaded) ==
    IF loaded THEN <<"library_handle", "plugin_handle">> ELSE <<>>

\* Drop::drop of LoadedLogPlugin calls close(handle); its fields go after it,
\* _lib among them.  A built-in plugin holds neither.
LoadedLogPluginDrop(loaded) ==
    IF loaded THEN <<"plugin_handle", "library_handle">> ELSE <<>>

InitDrop ==
    /\ \E kind \in {"exec", "create"}, attach \in BOOLEAN, loaded \in BOOLEAN,
          sync \in BOOLEAN :
          /\ attach => kind = "exec"
          /\ sp = [phase |-> "launch", kind |-> kind, attach |-> attach,
                   loaded |-> loaded, sync_pipe_fd |-> sync /\ kind = "exec",
                   workerfd_stdin |-> FALSE, mainfds |-> FALSE,
                   attach_socket |-> FALSE, released |-> <<>>]
    /\ SessIdle

DropGo(st, phase, evs) ==
    sp' = [st EXCEPT !.phase = phase, !.released = @ \o evs]
    /\ UNCHANGED sessVars

\* RuntimeSession::launch (Exec) or run_runtime (Create), in the process
\* that goes on after the first fork: on an error the session holds what was
\* set up before it.
DropLaunch ==
    /\ sp.phase = "launch"
    /\ \E ok \in BOOLEAN, listening \in BOOLEAN, piped \in BOOLEAN :
        /\ ok => listening /\ piped
        /\ LET st == [sp EXCEPT !.attach_socket = sp.attach /\ listening,
                                !.workerfd_stdin = sp.kind = "exec" /\ piped,
                                !.mainfds = sp.kind = "exec" /\ piped]
           IN  IF ~ok THEN DropGo(st, "drop_session", <<>>)
               ELSE IF sp.kind = "exec" THEN DropGo(st, "event_loop", <<>>)
               ELSE DropGo(st, "wait", <<>>)

\* run_event_loop: workerfd_stdin.take() is moved into handle_stdio.  While
\* it runs clients come and go and the stdin of the container may be closed
\* at the end of a console client; what is left goes at its return.
DropEventLoop ==
    /\ sp.phase = "event_loop"
    /\ \E ok \in BOOLEAN, clients \in 0..MaxDropClients, stdin \in BOOLEAN :
        /\ clients > 0 => sp.attach_socket
        /\ stdin => sp.workerfd_stdin
        /\ DropGo([sp EXCEPT !.workerfd_stdin = FALSE],
                  IF ~ok THEN "drop_session"
                  ELSE IF sp.kind = "exec" THEN "wait" ELSE "drop_session",
                  HandleStdioDrop(clients, stdin))

\* RuntimeSession::wait or wait_for_runtime: a status from waitpid takes the
\* runtime out of the process table, an error of waitpid does not.
DropWait ==
    /\ sp.phase = "wait"
    /\ \E w \in WaitOutcomes :
        LET evs == IF w.st = "Error" THEN <<>> ELSE <<"runtime_entry">> IN
        IF w.st # "Exited" THEN DropGo(sp, "drop_session", evs)
        ELSE IF sp.kind = "exec" THEN DropGo(sp, "write", evs)
        ELSE IF w.code = 0 THEN DropGo(sp, "event_loop", evs)
        ELSE DropGo(sp, "drop_session", evs)

\* write_container_pid_file and write_exit_code: the sync pipe fd is closed
\* before the end when the caller is gone or a write fails.
DropWrite ==
    /\ sp.phase = "write"
    /\ \E kept \in BOOLEAN :
        /\ kept => sp.sync_pipe_fd
        /\ DropGo([sp EXCEPT !.sync_pipe_fd = kept], "drop_session",
                  IF sp.sync_pipe_fd /\ ~kept THEN <<"sync_pipe_fd">> ELSE <<>>)

\* The return of Exec::exec or Create::exec: runtime_session goes.
DropSession ==
    /\ sp.phase = "drop_session"
    /\ DropGo([sp EXCEPT !.sync_pipe_fd = FALSE, !.workerfd_stdin = FALSE,
                         !.mainfds = FALSE, !.attach_socket = FALSE],
              "drop_plugin", RuntimeSessionDrop(sp))

\* The return of run_conmon: log_plugin goes.
DropLogPlugin ==
    /\ sp.phase = "drop_plugin"
    /\ DropGo(sp, "exited", LoadedLogPluginDrop(sp.loaded))

NextDrop ==
    \/ DropLaunch
    \/ DropEventLoop
    \/ DropWait
    \/ DropWrite
    \/ DropSession
    \/ DropLogPlugin

SpecDrop == InitDrop /\ [][NextDrop]_vars

\* The place of a resource in the order of the claim; 0 for the fds it does
\* not name.
C28_Rank(what) ==
    CASE what = "client_fd" -> 1
      [] what = "worker_stdin" -> 2
      [] what = "attach_socket" -> 3
      [] what = "plugin_handle" -> 4
      [] what = "library_handle" -> 5
      [] what = "runtime_entry" -> 6
      [] OTHER -> 0

C28_Named(i) == C28_Rank(sp.released[i]) # 0

\* C28 as stated: of two resources the claim names, the one released first
\* is not after the other in the order client fds, worker stdio fds, attach
\* socket, plugin handle, library handle, runtime process table entry.
C28_FixedOrder ==
    \A i, j \in 1..Len(sp.released) :
        (i < j /\ C28_Named(i) /\ C28_Named(j))
        => C28_Rank(sp.released[i]) <= C28_Rank(sp.released[j])

\* C28, amended: client fds, worker stdio fds, attach socket, plugin handle
\* and library handle are released in this order, each one the session holds
\* being released by the end; the runtime's entry in the process table is
\* released by the wait, before the attach socket, the plugin handle and the
\* library handle, and in an exec session after the client fds and the worker
\* stdin that the event loop held, in a create session before anything else.
C28_RuntimeEntryAtWait ==
    /\ \A i, j \in 1..Len(sp.released) :
        (i < j /\ C28_Named(i) /\ C28_Named(j)
         /\ sp.released[i] # "runtime_entry" /\ sp.released[j] # "runtime_entry")
        => C28_Rank(sp.released[i]) <= C28_Rank(sp.released[j])
    /\ \A i, j \in 1..Len(sp.released) :
        (i < j /\ sp.released[j] = "runtime_entry")
        => /\ sp.released[i] \in {"client_fd", "worker_stdin"}
           /\ sp.kind = "exec"
    /\ \A i, j \in 1..Len(sp.released) :
        (i < j /\ sp.released[i] = "runtime_entry" /\ sp.kind = "exec")
        => sp.released[j] \notin {"client_fd", "worker_stdin"}
    /\ sp.phase = "exited"
       => /\ ~sp.attach_socket /\ ~sp.workerfd_stdin
          /\ sp.loaded => \E i, j \in 1..Len(sp.released) :
                             /\ sp.released[i] = "plugin_handle"
                             /\ sp.released[j] = "library_handle"

C28_Witness ==
    /\ sp.phase = "exited"
    /\ sp.kind = "exec"
    /\ sp.released = <<"client_fd", "client_fd", "worker_stdin", "runtime_entry",
                       "sync_pipe_fd", "mainfd_stdout", "mainfd_stderr",
                       "attach_socket", "plugin_handle", "library_handle">>

C28_WitnessLaunchFailed ==
    /\ sp.phase = "exited"
    /\ sp.released = <<"worker_stdin", "mainfd_stdout", "mainfd_stderr",
                       "attach_socket", "plugin_handle", "library_handle">>

----------------------------------------------------------------------------
(* session.rs: a launch that fails ahead of spawn. *)

\* The statements of launch ahead of self.process.spawn(...).
C37_BeforeSpawn ==
    {"launch_sync", "launch_attach_pipe", "launch_listen", "launch_ready",
     "launch_start", "launch_pipes"}

\* C37: when launch returns an error from a statement ahead of spawn (a pipe
\* variable that is not an integer, attach without _OCI_ATTACHPIPE, a failed
\* attach socket, failed argv or pipe creation), no fork has happened, no
\* runtime was started, the recorded pid is still -1 and the conmon pidfile
\* was not written.
C37_NoRuntimeOnEarlyFailure ==
    [][(pc \in C37_BeforeSpawn /\ pc' = "main_ret" /\ sess'.result.st = "err")
       => /\ outcome'.child = -2 /\ outcome'.orig = -1
          /\ \A i \in 1..Len(trace') :
                trace'[i].ev \notin {"devnull", "fork", "block_signals", "spawn",
                                     "conmon_pidfile"}
          /\ sess'.pid = -1]_vars

C37_Witness ==
    /\ pc = "main_ret"
    /\ cfg.attach /\ cfg.conmon_pidfile
    /\ sess.result = Err(IoErr("--attach specified but _OCI_ATTACHPIPE was not set"))
    /\ sess.pid = -1
    /\ ~Has("fork")

C37_WitnessPipes ==
    /\ pc = "main_ret"
    /\ cfg.conmon_pidfile
    /\ sess.result = Err(IoErr("Failed to create pipe"))
    /\ Has("listen")
    /\ sess.pid = -1

----------------------------------------------------------------------------
(* session.rs: write_container_pid_file when the container pidfile cannot be
   read or parsed. *)

\* The step in which write_container_pid_file, holding a sync pipe fd,
\* returns the error of read_container_pid.
C39_FailedHandOff ==
    /\ pc = "exec_write_pid" /\ sess.sync_pipe_fd
    /\ pc' = "main_ret"
    /\ trace' = trace \o <<E("read_pidfile")>>

\* C39: a failure to read or parse the container pidfile writes nothing to
\* the sync pipe and leaves the session's sync pipe fd in place, not closed,
\* so that the session state is unchanged by the failed hand-off.
C39_SyncFdLeftInPlace ==
    [][C39_FailedHandOff
       => /\ pipes'.sync = pipes.sync
          /\ sess'.sync_pipe_fd = sess.sync_pipe_fd
          /\ sess' = [sess EXCEPT !.result = sess'.result]]_vars

\* C39, amended: a failure to read or parse the container pidfile writes
\* nothing to the sync pipe and closes the session's sync pipe fd, which was
\* taken out of the session ahead of the read; the rest of the session state
\* is unchanged by the failed hand-off.
C39_SyncFdClosedNothingWritten ==
    [][C39_FailedHandOff
       => /\ pipes' = pipes
          /\ ~sess'.sync_pipe_fd
          /\ sess'.result.st = "err"
          /\ sess' = [sess EXCEPT !.sync_pipe_fd = FALSE, !.result = sess'.result]]_vars

C39_Witness ==
    /\ pc = "main_ret"
    /\ Has("read_pidfile") /\ ~Has("pid_msg")
    /\ sess.result.st = "err"
    /\ Contains(sess.result.err.msg, "Invalid PID contents in ")
    /\ ~sess.sync_pipe_fd
    /\ pipes.sync = <<>>

----------------------------------------------------------------------------
(* process.rs, run.rs: the pid given to waitpid and to the best-effort kill. *)

C40_WaitEvents == {"wait", "wait_signaled", "wait_error", "kill"}

\* A step that calls waitpid, with or without the kill that follows its error.
C40_WaitStep ==
    \E i \in (Len(trace) + 1)..Len(trace') : trace'[i].ev \in C40_WaitEvents

\* self.pid of RuntimeProcess::wait in an exec session, the runtime_pid local
\* given to wait_for_runtime in a create session.
C40_WaitedPid == IF cfg.cmd = "exec" THEN sess.pid ELSE sess.runtime_pid

\* C40: in every session flow the runtime is waited for only after spawn
\* has recorded a pid greater than 0, and at most once: waitpid and the
\* best-effort SIGKILL are never issued with the unspawned pid -1.
C40_WaitOnlySpawnedAtMostOnce ==
    [][C40_WaitStep
       => /\ C40_WaitedPid > 0
          /\ Has("spawn")
          /\ \A i \in 1..Len(trace) : trace[i].ev \notin C40_WaitEvents]_vars

C40_Witness ==
    /\ cfg.cmd = "exec"
    /\ Has("wait")
    /\ sess.pid = RuntimePid
    /\ Precedes("spawn", "wait")

C40_WitnessKill ==
    /\ cfg.cmd = "create"
    /\ Has("kill")
    /\ sess.runtime_pid = RuntimePid

====
